---------------------------- MODULE Spec2Model ----------------------------
(***************************************************************************)
(* A model of the alignment scoring engine of the ISPS repository:         *)
(*   - the knowledge graph builder        (src/src/ontology/builder.py)    *)
(*   - the ontology alignment scorer      (src/src/ontology/alignment.py)  *)
(*   - the analysis run and its blending  (src/src/agents/orchestrator.py, *)
(*                                         src/src/agents/sync_agent.py)   *)
(*   - the retrieval fusion engine        (src/src/rag/retriever.py,       *)
(*                                         src/src/rag/hyde.py)            *)
(*                                                                         *)
(* Numbers.  Python floats are modelled as exact rationals [num, den] in   *)
(* lowest terms.  round(x, 3) is modelled as rounding to the nearest       *)
(* thousandth, ties to even; a binary float that sits on a tie may round   *)
(* either way, so the properties below speak of "a nearest thousandth".    *)
(*                                                                         *)
(* Texts.  The builder reads its input only through regular expressions,   *)
(* so an action plan text is modelled by what the expressions match in it: *)
(* the sequence of action table rows and the sequence of addendum tags.    *)
(* A Language Model answer is modelled by what the line parser keeps of it.*)
(*                                                                         *)
(* Configuration.  config.py lists 5 objectives with 6 KPIs each; the      *)
(* model is checked on a table of NumObjectives objectives with            *)
(* KpisPerObjective KPIs each, built the same way (objective n is "SO<n>", *)
(* each objective has a KPI letter of its own).                            *)
(***************************************************************************)
EXTENDS Integers, Sequences, FiniteSets, TLC

\* ------------------------------------------------------------------ bounds

\* Objectives in the configuration table that is checked.
NumObjectives == 2

\* KPIs under each objective in the configuration table that is checked.
KpisPerObjective == 2

\* Longest sequence of action table rows in an action plan text.
MaxRows == 2

\* Longest sequence of addendum tags in an action plan text.
MaxTags == 1

\* -------------------------------------------------------------- rationals

RECURSIVE GCD(_, _)
GCD(a, b) == IF b = 0 THEN a ELSE GCD(b, a % b)

Abs(x) == IF x < 0 THEN -x ELSE x

\* The rational n/d (d > 0) in lowest terms.
Rat(n, d) ==
    LET g == GCD(Abs(n), d)
    IN  [num |-> n \div g, den |-> d \div g]

RAdd(x, y) == Rat(x.num * y.den + y.num * x.den, x.den * y.den)
RMul(x, y) == Rat(x.num * y.num, x.den * y.den)
RGe(x, y)  == x.num * y.den >= y.num * x.den
RLt(x, y)  == x.num * y.den < y.num * x.den
RMin(x, y) == IF RGe(x, y) THEN y ELSE x
RMax(x, y) == IF RGe(x, y) THEN x ELSE y

\* A number of thousandths as a rational: Milli(780) is 0.78.
Milli(m) == Rat(m, 1000)

\* The integer nearest to x * scale, ties to the even one.
RoundToUnits(x, scale) ==
    LET n == x.num * scale
        q == n \div x.den
        r == n - q * x.den
    IN  IF 2 * r > x.den THEN q + 1
        ELSE IF 2 * r = x.den THEN q + (q % 2)
        ELSE q

\* round(x, 3)
Round3(x) == Rat(RoundToUnits(x, 1000), 1000)

\* round(x, 1)
Round1(x) == Rat(RoundToUnits(x, 10), 10)

\* ---------------------------------------------------------- configuration

\* STRATEGIC_OBJECTIVES: the ids in enumeration order; n stands for "SO<n>".
STRATEGIC_OBJECTIVES == [i \in 1..NumObjectives |-> i]

ObjectiveIds == {STRATEGIC_OBJECTIVES[i] : i \in 1..NumObjectives}

\* A KPI short id ("D3", "D10") is its letter and its number, a number
\* below 100; the letter of objective n is letter n.
KpiId(letter, num) == letter * 100 + num
KpiLetter(kpi) == kpi \div 100
KpiNum(kpi) == kpi % 100

\* OBJECTIVE_KPIS.get(obj, []): the KPI short ids under an objective.
OBJECTIVE_KPIS(obj) ==
    IF obj \in ObjectiveIds
    THEN {KpiId(obj, j) : j \in 1..KpisPerObjective}
    ELSE {}

\* ------------------------------------------------------------ graph nodes

\* ISPS["SO<n>"]
ObjectiveUri(n) == <<"SO", n, 0>>

\* ISPS["SO<n>_<kpi>"]
KpiUri(n, kpi) == <<"KPI", n, kpi>>

\* ISPS["A<n>_<m>"], the node of table action "A<n>.<m>"
ActionUri(n, m) == <<"A", n, m>>

\* ISPS["SO<n>_ADD_<i>"], the node of the i-th addendum action
AddendumUri(n, i) == <<"ADD", n, i>>

IntLiteral(v) == <<"int", v, 0>>
StrLiteral(s) == <<s, 0, 0>>

\* g.subjects(p, o) and g.objects(s, p) of rdflib
Subjects(g, p, o) == {t[1] : t \in {u \in g : u[2] = p /\ u[3] = o}}
Objects(g, s, p)  == {t[3] : t \in {u \in g : u[1] = s /\ u[2] = p}}

\* ---------------------------------------------------------------- builder

\* obj_num in "123456" (builder.py:126): Python's substring test on the
\* decimal numeral of n, written without leading zeros.
RECURSIVE InDigits123456(_)
InDigits123456(n) ==
    IF n < 10 THEN n \in 1..6
    ELSE /\ (n % 10) \in 2..6
         /\ ((n \div 10) % 10) = (n % 10) - 1
         /\ InDigits123456(n \div 10)

_progress_to_status(progress) ==
    IF progress >= 100 THEN "Completed"
    ELSE IF progress >= 50 THEN "In Progress"
    ELSE IF progress > 0 THEN "Started"
    ELSE "Not Started"

\* The triples build_knowledge_graph adds for the configured objectives.
ObjectiveTriples ==
    {<<ObjectiveUri(o), "type", StrLiteral("StrategicObjective")>> : o \in ObjectiveIds}

\* _extract_kpis: every configured KPI, typed and hung under its objective.
_extract_kpis(g) ==
    g \cup UNION {
        UNION {
            {<<KpiUri(o, k), "type", StrLiteral("KPI")>>,
             <<ObjectiveUri(o), "hasKPI", KpiUri(o, k)>>} : k \in OBJECTIVE_KPIS(o)
        } : o \in ObjectiveIds }

\* The objective a table row is filed under: the row's own numeral when it
\* passes the substring test, else the objective of the row before it.
RowObjective(row, current_obj) ==
    IF InDigits123456(row.n) THEN row.n ELSE current_obj

\* The triples one action table row adds (builder.py:117-143).
RowTriples(row, current_obj) ==
    LET action_uri == ActionUri(row.n, row.m)
    IN  {<<action_uri, "type", StrLiteral("Action")>>,
         <<action_uri, "hasProgress", IntLiteral(row.progress)>>,
         <<action_uri, "hasStatus", StrLiteral(_progress_to_status(row.progress))>>,
         <<action_uri, "supportsObjective", ObjectiveUri(current_obj)>>}
        \cup {<<action_uri, "supportsKPI", KpiUri(current_obj, k)>> :
                 k \in OBJECTIVE_KPIS(current_obj)}

\* _extract_actions: the rows in text order, current_obj starting at "SO1".
RECURSIVE ExtractActionsFrom(_, _, _, _)
ExtractActionsFrom(g, rows, i, current_obj) ==
    IF i > Len(rows) THEN g
    ELSE LET obj == RowObjective(rows[i], current_obj)
         IN  ExtractActionsFrom(g \cup RowTriples(rows[i], obj), rows, i + 1, obj)

_extract_actions(g, rows) == ExtractActionsFrom(g, rows, 1, 1)

\* The triples the i-th addendum tag "[SO<n>_<kpi>]" adds (builder.py:157-184).
TagTriples(tag, i) ==
    LET action_uri == AddendumUri(tag.n, i)
    IN  {<<action_uri, "type", StrLiteral("Action")>>,
         <<action_uri, "hasProgress", IntLiteral(20)>>,
         <<action_uri, "hasStatus", StrLiteral("In Progress")>>,
         <<action_uri, "supportsObjective", ObjectiveUri(tag.n)>>,
         <<action_uri, "supportsKPI", KpiUri(tag.n, tag.kpi)>>}

_extract_addendum_actions(g, tags) ==
    g \cup UNION {TagTriples(tags[i], i) : i \in 1..Len(tags)}

\* The length of the digit run the row pattern captures as progress.
RECURSIVE DigitCount(_)
DigitCount(v) == IF v < 10 THEN 1 ELSE 1 + DigitCount(v \div 10)

CellDigits(row) == row.zeros + DigitCount(row.progress)

\* int(progress) at builder.py:133: the conversion of a decimal string to an
\* integer raises ValueError when the string has more than 4300 digits (the
\* interpreter's default limit for integer string conversion).
int_raises(row) == CellDigits(row) > 4300

\* build_knowledge_graph raises when _extract_actions reaches such a row: no
\* try/except stands between the conversion and the caller.
BuildRaises(text) == \E i \in 1..Len(text.rows) : int_raises(text.rows[i])

\* build_knowledge_graph(strategic_text, action_text).  The strategic text
\* only adds descriptions, titles, baselines and targets, which no scorer
\* reads, so the graph is a function of the action text.
build_knowledge_graph(action_text) ==
    _extract_addendum_actions(
        _extract_actions(_extract_kpis(ObjectiveTriples), action_text.rows),
        action_text.tags)

\* ----------------------------------------------------------------- scorer

RECURSIVE SumProgress(_)
SumProgress(pairs) ==
    IF pairs = {} THEN 0
    ELSE LET p == CHOOSE q \in pairs : TRUE
         IN  p[2] + SumProgress(pairs \ {p})

\* The 0.75 / 0.50 / 0.25 classification of alignment.py:63-70, also used
\* for the overall score (orchestrator.py:189-196).
ClassifyOntology(score) ==
    IF RGe(score, Rat(75, 100)) THEN "Full"
    ELSE IF RGe(score, Rat(50, 100)) THEN "Partial"
    ELSE IF RGe(score, Rat(25, 100)) THEN "Weak"
    ELSE "Missing"

\* supporting_actions (alignment.py:28)
SupportingActions(g, obj_id) == Subjects(g, "supportsObjective", ObjectiveUri(obj_id))

\* kpis (alignment.py:31)
ObjectiveKpis(g, obj_id) == Objects(g, ObjectiveUri(obj_id), "hasKPI")

\* kpis_with_actions (alignment.py:35-38)
KpisWithActions(g, obj_id) ==
    UNION {Objects(g, a, "supportsKPI") : a \in SupportingActions(g, obj_id)}

\* progress_values (alignment.py:41-47): one entry per action and value.
ProgressValues(g, obj_id) ==
    UNION {{<<a, v[2]>> : v \in Objects(g, a, "hasProgress")} :
              a \in SupportingActions(g, obj_id)}

\* avg_progress (alignment.py:49)
AvgProgress(progress_values) ==
    IF progress_values # {}
    THEN Rat(SumProgress(progress_values), Cardinality(progress_values))
    ELSE Rat(0, 1)

\* kpi_coverage (alignment.py:53)
KpiCoverage(kpis_with_actions, total_kpis) ==
    IF total_kpis > 0
    THEN Rat(Cardinality(kpis_with_actions), total_kpis)
    ELSE Rat(0, 1)

\* action_density (alignment.py:58)
ActionDensity(action_count, total_kpis) ==
    IF total_kpis > 0
    THEN RMin(Rat(action_count, total_kpis), Rat(1, 1))
    ELSE Rat(0, 1)

\* alignment_score (alignment.py:60)
AlignmentScore(action_density, kpi_coverage, avg_progress) ==
    RAdd(RAdd(RMul(Rat(4, 10), action_density),
              RMul(Rat(4, 10), kpi_coverage)),
         RMul(RMul(Rat(2, 10), avg_progress), Rat(1, 100)))

\* One iteration of compute_ontology_alignment's loop (alignment.py:25-82).
ScoreObjective(g, obj_id) ==
    LET supporting_actions == SupportingActions(g, obj_id)
        total_kpis         == Cardinality(ObjectiveKpis(g, obj_id))
        kpis_with_actions  == KpisWithActions(g, obj_id)
        avg_progress       == AvgProgress(ProgressValues(g, obj_id))
        action_count       == Cardinality(supporting_actions)
        kpi_coverage       == KpiCoverage(kpis_with_actions, total_kpis)
        action_density     == ActionDensity(action_count, total_kpis)
        alignment_score    == AlignmentScore(action_density, kpi_coverage, avg_progress)
    IN  [alignment_score |-> Round3(alignment_score),
         alignment_level |-> ClassifyOntology(alignment_score),
         total_actions   |-> action_count,
         total_kpis      |-> total_kpis,
         kpis_covered    |-> Cardinality(kpis_with_actions),
         kpi_coverage    |-> Round3(kpi_coverage),
         avg_progress    |-> Round1(avg_progress)]

compute_ontology_alignment(g) == [obj_id \in ObjectiveIds |-> ScoreObjective(g, obj_id)]

\* The gaps of identify_gaps (alignment.py:171-176 and 186-192), as
\* <<gap_type, severity, node, progress>>; a KPI gap has no progress.
KpiGap(kpi_uri) == <<"No supporting actions", "High", kpi_uri, -1>>
ProgressGap(action, progress) == <<"Low progress", "Medium", action, progress>>

\* identify_gaps(g, objective_id) (alignment.py:140-194).  rdflib yields
\* triples in no fixed order, so the list is modelled by the set of its
\* entries; no entry occurs twice, the triples of a graph being a set.
identify_gaps(g, obj_id) ==
    LET obj_uri        == ObjectiveUri(obj_id)
        kpis           == Objects(g, obj_uri, "hasKPI")
        actions        == Subjects(g, "supportsObjective", obj_uri)
        supported_kpis == UNION {Objects(g, action, "supportsKPI") : action \in actions}
    IN  {KpiGap(kpi_uri) : kpi_uri \in kpis \ supported_kpis}
        \cup UNION {{ProgressGap(action, prog[2]) :
                        prog \in {v \in Objects(g, action, "hasProgress") : v[2] < 25}} :
                    action \in actions}


\* ------------------------------------------------------------------- state

VARIABLES
    action_text,         \* the action plan text: [rows, tags]
    knowledge_graph,     \* the set of triples build_knowledge_graph returned
    ontology_alignment,  \* what compute_ontology_alignment returned
    gap_report,          \* what identify_gaps returned, per objective
    o_pc                 \* "text", "raised", "graph", "scored" or "gaps"

ontVars == <<action_text, knowledge_graph, ontology_alignment, gap_report, o_pc>>

\* ------------------------------------------------------------------ inputs

\* The action table rows a text is made of, as (n, m, progress, zeros) of a
\* row "| A<n>.<m> | ... | <progress>% |" whose progress cell is written with
\* that many leading zeros: the spec's example row; a second
\* action of SO1 that has not started; the first action's id again with a
\* progress cell above 100 (the cell matches \d+); a finished action of SO2;
\* a numeral that fails the substring test of builder.py:126; a numeral
\* that passes it and names no configured objective; a progress cell of
\* 4301 zeros; the second action's id again just below and at the
\* low-progress threshold of alignment.py:182.
Rows == {[n |-> 1, m |-> 1, progress |-> 60, zeros |-> 0],
         [n |-> 1, m |-> 2, progress |-> 0, zeros |-> 0],
         [n |-> 1, m |-> 1, progress |-> 500, zeros |-> 0],
         [n |-> 2, m |-> 1, progress |-> 100, zeros |-> 0],
         [n |-> 7, m |-> 1, progress |-> 60, zeros |-> 0],
         [n |-> 6, m |-> 1, progress |-> 20, zeros |-> 0],
         [n |-> 1, m |-> 2, progress |-> 0, zeros |-> 4300],
         [n |-> 1, m |-> 2, progress |-> 24, zeros |-> 0],
         [n |-> 1, m |-> 2, progress |-> 25, zeros |-> 0]}

\* Addendum tags "[SO<n>_<kpi>]": a configured KPI of SO1, and a KPI id no
\* objective is configured with.
Tags == {[n |-> 1, kpi |-> KpiId(1, 1)],
         [n |-> 1, kpi |-> KpiId(9, 9)]}

SeqsUpTo(S, n) == UNION {[1..k -> S] : k \in 0..n}

ActionTexts == [rows : SeqsUpTo(Rows, MaxRows), tags : SeqsUpTo(Tags, MaxTags)]

NoAlignment == [obj_id \in {} |-> 0]

\* ------------------------------------------------------- the analysis run

\* _parse_agent_output (sync_agent.py:152-184) on a Language Model answer.
\* An answer is what its lines hold: score and level are <<>> when the line
\* is absent (or, for the score, not a number), else <<value>>; a score is
\* a number of thousandths, of any sign and size; the KPI lists are the
\* comma-separated entries, empty when the line is absent.
_parse_agent_output(output) ==
    [alignment_score |-> IF output.score = <<>> THEN Rat(5, 10)
                          ELSE Milli(output.score[1]),
     alignment_level |-> IF output.level = <<>> THEN "Partial" ELSE output.level[1],
     covered_kpis    |-> output.covered,
     uncovered_kpis  |-> output.uncovered,
     justification   |-> <<"J">>,
     error           |-> ""]

\* A failure record that keeps no trace of the error.
SyncFailure_Unrecorded(e) ==
    [alignment_score |-> Rat(5, 10),
     alignment_level |-> "Partial",
     covered_kpis    |-> <<>>,
     uncovered_kpis  |-> <<>>,
     justification   |-> <<"J">>,
     error           |-> ""]
\* The record run_sync_assessment returns when the agent call raises
\* (sync_agent.py:139-149).  The dict holds no KPI lists; the orchestrator
\* reads them with a default of [].
SyncFailure(e) ==
    [alignment_score |-> Rat(5, 10),
     alignment_level |-> "Partial",
     covered_kpis    |-> <<>>,
     uncovered_kpis  |-> <<>>,
     justification   |-> <<"Agent encountered an error: ", e>>,
     error           |-> e]

\* The agent score without min(1.0, max(0.0, ...)).
AgentScore_Unclamped(sync) ==
    LET total_kpis == Len(sync.covered_kpis) + Len(sync.uncovered_kpis)
    IN  IF total_kpis > 0
        THEN Round3(RAdd(RMul(Rat(8, 10), Rat(Len(sync.covered_kpis), total_kpis)),
                         RMul(Rat(2, 10), sync.alignment_score)))
        ELSE sync.alignment_score
\* agent_score (orchestrator.py:101-119)
AgentScore(sync) ==
    LET total_kpis == Len(sync.covered_kpis) + Len(sync.uncovered_kpis)
        kpi_ratio  == Rat(Len(sync.covered_kpis), total_kpis)
        blended    == RAdd(RMul(Rat(8, 10), kpi_ratio),
                           RMul(Rat(2, 10), sync.alignment_score))
    IN  IF total_kpis > 0
        THEN Round3(RMin(Rat(1, 1), RMax(Rat(0, 1), blended)))
        ELSE sync.alignment_score

\* combined_score (orchestrator.py:124)
CombinedScore(agent_score, ontology_score) ==
    RAdd(RMul(Rat(8, 10), agent_score), RMul(Rat(2, 10), ontology_score))

\* The classification with > in place of >=.
ClassifyCombined_StrictEdges(combined_score) ==
    IF ~RGe(Rat(8, 10), combined_score) THEN "Full"
    ELSE IF ~RGe(Rat(6, 10), combined_score) THEN "Partial"
    ELSE IF ~RGe(Rat(4, 10), combined_score) THEN "Weak"
    ELSE "Missing"
\* The 0.8 / 0.6 / 0.4 classification of orchestrator.py:131-138.
ClassifyCombined(combined_score) ==
    IF RGe(combined_score, Rat(8, 10)) THEN "Full"
    ELSE IF RGe(combined_score, Rat(6, 10)) THEN "Partial"
    ELSE IF RGe(combined_score, Rat(4, 10)) THEN "Weak"
    ELSE "Missing"

\* The test with the Partial cut point 0.6 in place of 0.7.
NeedsImprovement_BelowPartial(combined_score) == RLt(combined_score, Rat(6, 10))
\* combined_score < 0.7 (orchestrator.py:142)
NeedsImprovement(combined_score) == RLt(combined_score, Rat(7, 10))

\* The blending without the reclassification of orchestrator.py:130-138.
Blend_KeepingLevel(sync, ontology_score) ==
    LET agent_score    == AgentScore(sync)
        combined_score == CombinedScore(agent_score, ontology_score)
    IN  [sync EXCEPT !.alignment_score = agent_score] @@
        [combined_score |-> Round3(combined_score),
         ontology_score |-> ontology_score]
\* sync_result after orchestrator.py:99-138: the corrected score replaces
\* the raw one only when a KPI is listed; the level is always reclassified.
Blend(sync, ontology_score) ==
    LET agent_score    == AgentScore(sync)
        combined_score == CombinedScore(agent_score, ontology_score)
    IN  [sync EXCEPT !.alignment_score = agent_score,
                     !.alignment_level = ClassifyCombined(combined_score)] @@
        [combined_score |-> Round3(combined_score),
         ontology_score |-> ontology_score]

VARIABLES
    run_pc,              \* where run_full_analysis stands
    idx,                 \* the position in STRATEGIC_OBJECTIVES of the loop
    sync_result,         \* the current objective's sync_result
    improvement_result,  \* the current objective's improvement_result
    results,             \* results["objectives"]
    total_score,         \* the running sum of combined scores
    overall,             \* results["overall_score"], results["overall_level"]
    executive_summary,   \* results["executive_summary"]
    progress_log,        \* the calls made to progress_callback
    faults,              \* the Language Model calls that raised: <<objective, call>>
    raised_by,           \* the call whose exception left run_full_analysis
    eval_results         \* what run_evaluation returned for the run's results

runVars == <<run_pc, idx, sync_result, improvement_result, results, total_score,
             overall, executive_summary, progress_log, faults, raised_by,
             eval_results>>

\* One call of retrieve_chunks (retriever.py:32-113).
VARIABLES
    r_pc,                \* where the call is: expand, hyde, search, returned, raised
    use_multi_query,     \* the argument use_multi_query
    use_hyde,            \* the argument use_hyde
    top_k,               \* the argument top_k: << >> for None, <<k>> for k
    queries,             \* the list queries
    q_idx,               \* the position of the loop of retriever.py:76
    searched,            \* the query texts sent to the vector store so far
    search_log,          \* the result lists the store returned: <<query text, hits>>
    all_results,         \* the dict all_results, as its values in insertion order
    ranked,              \* the list the call returns
    retrieval_faults     \* the calls that raised during this retrieval

retVars == <<r_pc, use_multi_query, use_hyde, top_k, queries, q_idx, searched,
             search_log, all_results, ranked, retrieval_faults>>

\* One dashboard session (app.py) and the cache file it shares with the disk.
VARIABLES
    d_pc,                \* where the script run stands: autoload, sidebar, runner,
                         \* running, idle (the script run is over)
    cache_file,          \* the content of CACHE_FILE
    cached,              \* what load_pipeline_cache did, when last called
    pipeline_run,        \* st.session_state.pipeline_run
    pipeline_running,    \* st.session_state.pipeline_running
    run_pipeline,        \* st.session_state.run_pipeline
    session_results,     \* st.session_state.analysis_results: "None" or its origin
    clicked,             \* the "Run Full Analysis" button of this script run
    force_rerun,         \* the "Force re-run" checkbox of this script run
    last_run             \* how the latest pipeline run of the session ended

dashVars == <<d_pc, cache_file, cached, pipeline_run, pipeline_running, run_pipeline,
              session_results, clicked, force_rerun, last_run>>

\* Two callers (two sessions, each with its own session state) that run the
\* pipeline of app.py:287-387 over the one persisted chunk index.
VARIABLES
    p_pc,                \* per caller, where its pipeline run stands
    p_running,           \* per caller, its own st.session_state.pipeline_running
    index,               \* the persisted collections, in the order of
                         \* clear_all_collections: strategic_plan, action_plan, combined
    handle,              \* per caller, the collection object ingest_chunks holds
    observed             \* per caller, what its retrieval found in action_plan

parVars == <<p_pc, p_running, index, handle, observed>>

\* The tool calls the agents make while the orchestrator walks the objectives
\* (orchestrator.py:54-148).
VARIABLES
    t_pc,                \* where the walk stands: which agent is at work
    t_idx,               \* position of the objective under assessment
    tool_log             \* the tool calls made so far, with what each one read

toolVars == <<t_pc, t_idx, tool_log>>

appVars == <<dashVars, parVars, toolVars>>

vars == <<ontVars, runVars, retVars, appVars>>

NoRecord == [k \in {} |-> 0]

\* What the line parser keeps of a Language Model answer to the judgment
\* prompt: the ALIGNMENT_SCORE in thousandths and the ALIGNMENT_LEVEL, each
\* << >> when the answer has no such line, and the two KPI lists.
Answer(score, level, covered, uncovered) ==
    [score |-> score, level |-> level, covered |-> covered, uncovered |-> uncovered]
Answers ==
    {Answer(<<900>>, <<"Full">>, <<KpiId(1, 1), KpiId(1, 2), KpiId(1, 3)>>, <<KpiId(1, 4)>>),
     Answer(<<900>>, << >>, <<KpiId(1, 1)>>, <<KpiId(1, 2), KpiId(1, 3)>>),
     Answer(<< >>, <<"Full">>, <<KpiId(1, 1)>>, <<KpiId(1, 2), KpiId(1, 3)>>),
     Answer(<<2500>>, <<"Full">>, <<KpiId(1, 1), KpiId(1, 2), KpiId(1, 3)>>, <<KpiId(1, 4)>>),
     Answer(<<-500>>, <<"Full">>, << >>, <<KpiId(1, 1)>>),
     Answer(<<2500>>, <<"Full">>, << >>, << >>),
     Answer(<<-500>>, <<"Weak">>, << >>, << >>),
     Answer(<< >>, << >>, << >>, << >>),
     Answer(<<900>>, <<"Full">>, <<KpiId(2, 2)>>, <<KpiId(2, 1)>>),
     Answer(<<900>>, <<"Full">>, <<KpiId(2, 1)>>, <<KpiId(2, 10)>>),
     Answer(<<900>>, <<"Partial">>, <<KpiId(1, 1), KpiId(1, 2)>>, <<KpiId(1, 2)>>)}
Errors == {"timeout"}

\* The action plans the run is checked on: the spec's example row; two
\* finished actions under SO1; a progress cell above 100; one action of SO1
\* at 39%.
AnalysisPlans ==
    {[rows |-> <<[n |-> 1, m |-> 1, progress |-> 60, zeros |-> 0]>>, tags |-> << >>],
     [rows |-> <<[n |-> 1, m |-> 1, progress |-> 39, zeros |-> 0]>>, tags |-> << >>],
     [rows |-> <<[n |-> 1, m |-> 1, progress |-> 100, zeros |-> 0],
                 [n |-> 1, m |-> 2, progress |-> 100, zeros |-> 0]>>, tags |-> << >>],
     [rows |-> <<[n |-> 1, m |-> 1, progress |-> 500, zeros |-> 0],
                 [n |-> 2, m |-> 1, progress |-> 0, zeros |-> 0]>>, tags |-> << >>]}

\* The loop variable of a loop that walks the table backwards.
loop_obj_id_Reversed == STRATEGIC_OBJECTIVES[NumObjectives + 1 - idx]
\* obj_id, the loop variable of orchestrator.py:54
loop_obj_id == STRATEGIC_OBJECTIVES[idx]

\* ------------------------------------------------------- the chunk index

\* Batches of 100 chunks that ingest_chunks adds to a collection.
MaxBatches == 2

Callers == {1, 2}

\* Where a caller's run stands: the phase, the collection in hand (1..3) and
\* the batch to add next (0 before the collection object is obtained).
At(phase, col, batch) == [phase |-> phase, col |-> col, batch |-> batch]

\* A collection of the persisted index: whether it exists, which incarnation
\* it is (a deleted and re-created collection is another object), and the
\* batches it holds.
NoCollection(gen) == [exists |-> FALSE, gen |-> gen, batches |-> {}]
\* client.get_or_create_collection (vector_store.py:30, and the Chroma
\* wrapper of retriever.py:25-29)
get_or_create_collection(col) ==
    IF col.exists THEN col ELSE [exists |-> TRUE, gen |-> col.gen + 1, batches |-> {}]

\* CHROMA_COLLECTION_ACTION in the order of vector_store.py:166
ActionCollection == 2

\* What a similarity search finds when it reads the caller's own ingestion
\* instead of the shared collection.
SearchFinds_OwnIngestion(col) == "full"
\* What a similarity search over a collection has to draw from.
SearchFinds(col) ==
    IF col.batches = {} THEN "empty"
    ELSE IF col.batches = 1..MaxBatches THEN "full"
    ELSE "partial"

\* ------------------------------------------------------- the pipeline cache

\* What CACHE_FILE may hold.  A file is its kind and, for a JSON document,
\* the strings s for which `s in data` is true: the keys of an object, the
\* items of an array, the substrings of a string.
CacheContent(kind, has) == [kind |-> kind, has |-> has]
MissingFile == CacheContent("missing", {})
\* The document save_pipeline_cache writes (pipeline_cache.py:33-41).
SavedSnapshot ==
    CacheContent("object", {"analysis_results", "chunks", "eval_results", "kg_summary"})
CacheFiles ==
    {MissingFile,
     CacheContent("unreadable", {}),        \* open() raises an OSError
     CacheContent("not utf-8", {}),         \* the read raises UnicodeDecodeError
     CacheContent("not json", {}),          \* json.load raises JSONDecodeError
     CacheContent("null", {}),
     CacheContent("number", {}),
     CacheContent("array", {}),
     CacheContent("array", {"analysis_results", "chunks"}),
     CacheContent("string", {"analysis_results", "chunks"}),
     CacheContent("object", {}),
     CacheContent("object", {"analysis_results"}),
     CacheContent("object", {"chunks", "eval_results"}),
     CacheContent("object", {"analysis_results", "eval_results"}),
     CacheContent("object", {"analysis_results", "chunks"}),
     CacheContent("object", {"analysis_results", "chunks", "eval_results"}),
     SavedSnapshot}

\* What a call of load_pipeline_cache did: returned None, returned data, or
\* raised.
Loaded(outcome, data) == [outcome |-> outcome, data |-> data]
NotLoaded == Loaded("not called", MissingFile)

\* load_pipeline_cache (pipeline_cache.py:46-72).  The except clause names
\* json.JSONDecodeError and IOError; `in` on None or a number raises
\* TypeError, and a byte sequence that is not UTF-8 raises
\* UnicodeDecodeError, neither of which it names.
load_pipeline_cache(file) ==
    IF file.kind = "missing" THEN Loaded("None", MissingFile)
    ELSE IF file.kind \in {"unreadable", "not json"} THEN Loaded("None", MissingFile)
    ELSE IF file.kind = "not utf-8" THEN Loaded("raised", MissingFile)
    ELSE IF file.kind \in {"null", "number"} THEN Loaded("raised", MissingFile)
    ELSE IF "analysis_results" \notin file.has \/ "chunks" \notin file.has
         THEN Loaded("None", MissingFile)
    ELSE Loaded("data", file)

\* ------------------------------------------------- the scorer on any graph

\* A knowledge graph is about to be built from any action plan text; no
\* analysis run and no retrieval is under way.
OntInit ==
    /\ action_text \in ActionTexts
    /\ knowledge_graph = {}
    /\ ontology_alignment = NoAlignment
    /\ gap_report = NoAlignment
    /\ o_pc = "text"
    /\ run_pc = "idle"
    /\ idx = 0
    /\ sync_result = NoRecord
    /\ improvement_result = "None"
    /\ results = NoRecord
    /\ total_score = Rat(0, 1)
    /\ overall = NoRecord
    /\ executive_summary = ""
    /\ progress_log = << >>
    /\ faults = {}
    /\ raised_by = ""
    /\ eval_results = NoRecord
    /\ d_pc = "off"
    /\ cache_file = MissingFile
    /\ cached = NotLoaded
    /\ pipeline_run = FALSE
    /\ pipeline_running = FALSE
    /\ run_pipeline = FALSE
    /\ session_results = "None"
    /\ clicked = FALSE
    /\ force_rerun = FALSE
    /\ last_run = "none"
    /\ p_pc = [c \in Callers |-> At("off", 0, 0)]
    /\ p_running = [c \in Callers |-> FALSE]
    /\ index = [k \in 1..3 |-> NoCollection(0)]
    /\ handle = [c \in Callers |-> 0]
    /\ observed = [c \in Callers |-> "nothing"]
    /\ t_pc = "off"
    /\ t_idx = 0
    /\ tool_log = << >>
    /\ r_pc = "idle"
    /\ use_multi_query = FALSE
    /\ use_hyde = FALSE
    /\ top_k = << >>
    /\ queries = << >>
    /\ q_idx = 0
    /\ searched = << >>
    /\ search_log = << >>
    /\ all_results = << >>
    /\ ranked = << >>
    /\ retrieval_faults = {}

Build ==
    /\ o_pc = "text"
    /\ IF BuildRaises(action_text)
       THEN /\ o_pc' = "raised"
            /\ UNCHANGED knowledge_graph
       ELSE /\ knowledge_graph' = build_knowledge_graph(action_text)
            /\ o_pc' = "graph"
    /\ UNCHANGED <<action_text, ontology_alignment, gap_report, runVars, retVars, appVars>>

Score ==
    /\ o_pc = "graph"
    /\ ontology_alignment' = compute_ontology_alignment(knowledge_graph)
    /\ o_pc' = "scored"
    /\ UNCHANGED <<action_text, knowledge_graph, gap_report, runVars, retVars, appVars>>

\* identify_gaps on each configured objective of the graph.
IdentifyGaps ==
    /\ o_pc = "scored"
    /\ gap_report' = [obj_id \in ObjectiveIds |-> identify_gaps(knowledge_graph, obj_id)]
    /\ o_pc' = "gaps"
    /\ UNCHANGED <<action_text, knowledge_graph, ontology_alignment, runVars, retVars, appVars>>

OntNext ==
    \/ Build
    \/ Score
    \/ IdentifyGaps

SpecOntology == OntInit /\ [][OntNext]_vars

\* ------------------------------------------------------------ evaluation

\* EXPECTED_ALIGNMENT[obj] (ground_truth.py:60-67), keyed like
\* STRATEGIC_OBJECTIVES: "Partial" is expected of SO4 and SO5, "Full" of the
\* others; min_score is 0.85, 0.80, 0.80, 0.60, 0.50, 0.80.
EXPECTED_ALIGNMENT(obj) ==
    [level     |-> IF obj \in {4, 5} THEN "Partial" ELSE "Full",
     min_score |-> IF obj = 1 THEN Milli(850)
                   ELSE IF obj = 4 THEN Milli(600)
                   ELSE IF obj = 5 THEN Milli(500)
                   ELSE Milli(800)]

\* EXPECTED_GAPS (ground_truth.py:70-76): SO4_I4, SO5_O3, SO5_O4, SO5_O5,
\* SO2_R1, each as the objective and the KPI short id.
EXPECTED_GAPS ==
    <<[obj |-> 4, kpi |-> KpiId(4, 4)],
      [obj |-> 5, kpi |-> KpiId(5, 3)],
      [obj |-> 5, kpi |-> KpiId(5, 4)],
      [obj |-> 5, kpi |-> KpiId(5, 5)],
      [obj |-> 2, kpi |-> KpiId(2, 1)]>>

RAbs(x) == Rat(Abs(x.num), x.den)

RECURSIVE RSum(_)
RSum(xs) == IF xs = << >> THEN Rat(0, 1) ELSE RAdd(Head(xs), RSum(Tail(xs)))

\* system_results.get(obj_id, {}) read with the defaults of metrics.py:78-80
\* and 125-127.
SystemScore(system_results, obj_id) ==
    IF obj_id \in DOMAIN system_results
    THEN system_results[obj_id].combined_score ELSE Rat(5, 10)
SystemLevel(system_results, obj_id) ==
    IF obj_id \in DOMAIN system_results
    THEN system_results[obj_id].sync_assessment.alignment_level ELSE "Partial"
SystemUncovered(system_results, obj_id) ==
    IF obj_id \in DOMAIN system_results
    THEN system_results[obj_id].sync_assessment.uncovered_kpis ELSE << >>

\* The evaluation that counts the objectives whose level differs.
evaluate_alignment_accuracy_CountingMisses(system_results) ==
    LET n == NumObjectives
        correct_levels ==
            Cardinality({obj_id \in ObjectiveIds :
                SystemLevel(system_results, obj_id) # EXPECTED_ALIGNMENT(obj_id).level})
        total_mae ==
            RSum([i \in 1..n |->
                RAbs(RAdd(SystemScore(system_results, STRATEGIC_OBJECTIVES[i]),
                          RMul(Rat(-1, 1),
                               EXPECTED_ALIGNMENT(STRATEGIC_OBJECTIVES[i]).min_score)))])
    IN  [level_accuracy      |-> IF n > 0 THEN Round3(Rat(correct_levels, n)) ELSE Rat(0, 1),
         mean_absolute_error |-> IF n > 0 THEN Round3(RMul(total_mae, Rat(1, n)))
                                 ELSE Rat(0, 1),
         correct_levels      |-> correct_levels,
         total_objectives    |-> n]
\* evaluate_alignment_accuracy (metrics.py:59-110), "overall" part: the loop
\* runs over the keys of EXPECTED_ALIGNMENT, which are the configured
\* objectives.
evaluate_alignment_accuracy(system_results) ==
    LET n == NumObjectives
        correct_levels ==
            Cardinality({obj_id \in ObjectiveIds :
                SystemLevel(system_results, obj_id) = EXPECTED_ALIGNMENT(obj_id).level})
        total_mae ==
            RSum([i \in 1..n |->
                RAbs(RAdd(SystemScore(system_results, STRATEGIC_OBJECTIVES[i]),
                          RMul(Rat(-1, 1),
                               EXPECTED_ALIGNMENT(STRATEGIC_OBJECTIVES[i]).min_score)))])
    IN  [level_accuracy      |-> IF n > 0 THEN Round3(Rat(correct_levels, n)) ELSE Rat(0, 1),
         mean_absolute_error |-> IF n > 0 THEN Round3(RMul(total_mae, Rat(1, n)))
                                 ELSE Rat(0, 1),
         correct_levels      |-> correct_levels,
         total_objectives    |-> n]

\* The decimal numeral of a is a prefix of the decimal numeral of b.
RECURSIVE DigitsPrefix(_, _)
DigitsPrefix(a, b) == a = b \/ (b >= 10 /\ DigitsPrefix(a, b \div 10))

\* kpi_suffix in u (metrics.py:130) for an entry u that is a KPI short id:
\* "D1" occurs in "D1" and in "D10", not in "D2", "D21" or "R1".
SuffixIn(kpi_suffix, u) ==
    /\ KpiLetter(kpi_suffix) = KpiLetter(u)
    /\ DigitsPrefix(KpiNum(kpi_suffix), KpiNum(u))

\* The detection by equality with an entry.
GapDetected_ExactId(system_results, gap) ==
    LET uncovered == SystemUncovered(system_results, gap.obj)
    IN  \E i \in 1..Len(uncovered) : gap.kpi = uncovered[i]
\* metrics.py:121-130 for one expected gap.
GapDetected(system_results, gap) ==
    LET uncovered == SystemUncovered(system_results, gap.obj)
    IN  \E i \in 1..Len(uncovered) : SuffixIn(gap.kpi, uncovered[i])

\* evaluate_gap_detection (metrics.py:113-145)
evaluate_gap_detection(system_results) ==
    LET detected_gaps == SelectSeq(EXPECTED_GAPS, LAMBDA gap : GapDetected(system_results, gap))
        missed_gaps   == SelectSeq(EXPECTED_GAPS, LAMBDA gap : ~GapDetected(system_results, gap))
        total         == Len(EXPECTED_GAPS)
    IN  [total_expected_gaps |-> total,
         detected            |-> Len(detected_gaps),
         missed              |-> Len(missed_gaps),
         detection_rate      |-> IF total > 0 THEN Round3(Rat(Len(detected_gaps), total))
                                 ELSE Rat(0, 1),
         detected_gaps       |-> detected_gaps,
         missed_gaps         |-> missed_gaps]

\* run_evaluation (evaluator.py:15-72), the parts computed from the levels,
\* scores and uncovered lists of the run.
run_evaluation(system_results) ==
    [alignment_accuracy |-> evaluate_alignment_accuracy(system_results),
     gap_detection      |-> evaluate_gap_detection(system_results)]

\* ---------------------------------------------------- run_full_analysis

\* run_full_analysis(knowledge_graph, progress_callback) is called.
RunInit ==
    /\ action_text \in AnalysisPlans
    /\ knowledge_graph = build_knowledge_graph(action_text)
    /\ ontology_alignment = NoAlignment
    /\ gap_report = NoAlignment
    /\ o_pc = "graph"
    /\ run_pc = "start"
    /\ idx = 0
    /\ sync_result = NoRecord
    /\ improvement_result = "None"
    /\ results = NoRecord
    /\ total_score = Rat(0, 1)
    /\ overall = NoRecord
    /\ executive_summary = ""
    /\ progress_log = << >>
    /\ faults = {}
    /\ raised_by = ""
    /\ eval_results = NoRecord
    /\ d_pc = "off"
    /\ cache_file = MissingFile
    /\ cached = NotLoaded
    /\ pipeline_run = FALSE
    /\ pipeline_running = FALSE
    /\ run_pipeline = FALSE
    /\ session_results = "None"
    /\ clicked = FALSE
    /\ force_rerun = FALSE
    /\ last_run = "none"
    /\ p_pc = [c \in Callers |-> At("off", 0, 0)]
    /\ p_running = [c \in Callers |-> FALSE]
    /\ index = [k \in 1..3 |-> NoCollection(0)]
    /\ handle = [c \in Callers |-> 0]
    /\ observed = [c \in Callers |-> "nothing"]
    /\ t_pc = "off"
    /\ t_idx = 0
    /\ tool_log = << >>
    /\ r_pc = "idle"
    /\ use_multi_query = FALSE
    /\ use_hyde = FALSE
    /\ top_k = << >>
    /\ queries = << >>
    /\ q_idx = 0
    /\ searched = << >>
    /\ search_log = << >>
    /\ all_results = << >>
    /\ ranked = << >>
    /\ retrieval_faults = {}

\* Step 1 (orchestrator.py:49): the ontology alignment of the graph.
ComputeAlignment ==
    /\ run_pc = "start"
    /\ ontology_alignment' = compute_ontology_alignment(knowledge_graph)
    /\ idx' = 1
    /\ run_pc' = "judge"
    /\ UNCHANGED <<action_text, knowledge_graph, gap_report, o_pc, retVars, appVars, eval_results,
                   sync_result,
                   improvement_result, results, total_score, overall,
                   executive_summary, progress_log, faults, raised_by>>

\* orchestrator.py:54-97 with an agent that answers: the parsed answer.
SyncAnswers ==
    /\ run_pc = "judge"
    /\ idx <= NumObjectives
    /\ \E output \in Answers : sync_result' = _parse_agent_output(output)
    /\ improvement_result' = "None"
    /\ progress_log' = Append(progress_log, <<loop_obj_id, "Analyzing...">>)
    /\ run_pc' = "blend"
    /\ UNCHANGED <<ontVars, retVars, appVars, eval_results, idx, results, total_score, overall,
                   executive_summary, faults, raised_by>>

\* orchestrator.py:54-97 with an agent call that raises or times out: the
\* exception is caught inside run_sync_assessment (sync_agent.py:139).
SyncFails ==
    /\ run_pc = "judge"
    /\ idx <= NumObjectives
    /\ \E e \in Errors : sync_result' = SyncFailure(e)
    /\ faults' = faults \cup {<<loop_obj_id, "judgment">>}
    /\ improvement_result' = "None"
    /\ progress_log' = Append(progress_log, <<loop_obj_id, "Analyzing...">>)
    /\ run_pc' = "blend"
    /\ UNCHANGED <<ontVars, retVars, appVars, eval_results, idx, results, total_score, overall,
                   executive_summary, raised_by>>

\* orchestrator.py:99-138
BlendScores ==
    /\ run_pc = "blend"
    /\ sync_result' = Blend(sync_result, ontology_alignment[loop_obj_id].alignment_score)
    /\ run_pc' = "improve"
    /\ UNCHANGED <<ontVars, retVars, appVars, eval_results, idx, improvement_result, results, total_score,
                   overall, executive_summary, progress_log, faults, raised_by>>

\* The unrounded combined_score of the objective in hand.
current_combined_score ==
    CombinedScore(sync_result.alignment_score, sync_result.ontology_score)

\* orchestrator.py:140-148 when the improvement agent answers.
ImprovementAnswers ==
    /\ run_pc = "improve"
    /\ NeedsImprovement(current_combined_score)
    /\ improvement_result' = "suggestions"
    /\ progress_log' = Append(progress_log, <<loop_obj_id, "Generating improvements...">>)
    /\ run_pc' = "guide"
    /\ UNCHANGED <<ontVars, retVars, appVars, eval_results, idx, sync_result, results, total_score, overall,
                   executive_summary, faults, raised_by>>

\* orchestrator.py:140-148 when the improvement agent's call raises: its own
\* try/except (improvement_agent.py:66-124) returns an error record.
ImprovementFails ==
    /\ run_pc = "improve"
    /\ NeedsImprovement(current_combined_score)
    /\ improvement_result' = "error"
    /\ faults' = faults \cup {<<loop_obj_id, "improvement">>}
    /\ progress_log' = Append(progress_log, <<loop_obj_id, "Generating improvements...">>)
    /\ run_pc' = "guide"
    /\ UNCHANGED <<ontVars, retVars, appVars, eval_results, idx, sync_result, results, total_score, overall,
                   executive_summary, raised_by>>

SkipImprovement ==
    /\ run_pc = "improve"
    /\ ~NeedsImprovement(current_combined_score)
    /\ run_pc' = "guide"
    /\ UNCHANGED <<ontVars, retVars, appVars, eval_results, idx, sync_result, improvement_result, results,
                   total_score, overall, executive_summary, progress_log,
                   faults, raised_by>>

\* orchestrator.py:150-183 when generate_guidance_messages returns.
GuidanceAnswers ==
    /\ run_pc = "guide"
    /\ results' = (loop_obj_id :> [sync_assessment   |-> sync_result,
                                   improvements      |-> improvement_result,
                                   guidance_messages |-> "messages",
                                   combined_score    |-> current_combined_score,
                                   ontology_score    |-> sync_result.ontology_score])
                  @@ results
    /\ total_score' = RAdd(total_score, current_combined_score)
    /\ progress_log' = Append(progress_log, <<loop_obj_id, "Done">>)
    /\ idx' = idx + 1
    /\ run_pc' = "judge"
    /\ UNCHANGED <<ontVars, retVars, appVars, eval_results, sync_result, improvement_result, overall,
                   executive_summary, faults, raised_by>>

\* generate_guidance_messages (chains.py:168-188) has no try/except, and
\* neither has its call site (orchestrator.py:156): a failed call leaves
\* run_full_analysis as an exception.
GuidanceFails ==
    /\ run_pc = "guide"
    /\ faults' = faults \cup {<<loop_obj_id, "guidance">>}
    /\ run_pc' = "raised"
    /\ raised_by' = "guidance"
    /\ UNCHANGED <<ontVars, retVars, appVars, eval_results, idx, sync_result, improvement_result, results,
                   total_score, overall, executive_summary, progress_log>>

\* orchestrator.py:185-187
OverallScore(total, n_objectives) ==
    IF n_objectives > 0 THEN Round3(RMul(total, Rat(1, n_objectives))) ELSE Rat(0, 1)

\* orchestrator.py:185-196
ComputeOverall ==
    /\ run_pc = "judge"
    /\ idx > NumObjectives
    /\ LET score == OverallScore(total_score, NumObjectives)
       IN  overall' = [overall_score |-> score,
                       overall_level |-> ClassifyOntology(score)]
    /\ run_pc' = "summarize"
    /\ UNCHANGED <<ontVars, retVars, appVars, eval_results, idx, sync_result, improvement_result, results,
                   total_score, executive_summary, progress_log, faults, raised_by>>

\* orchestrator.py:198-212 when generate_executive_summary returns.
SummaryAnswers ==
    /\ run_pc = "summarize"
    /\ executive_summary' = "summary"
    /\ run_pc' = "returned"
    /\ UNCHANGED <<ontVars, retVars, appVars, eval_results, idx, sync_result, improvement_result, results,
                   total_score, overall, progress_log, faults, raised_by>>

\* generate_executive_summary (chains.py:160-165) has no try/except either,
\* nor has its call site (orchestrator.py:204).
SummaryFails ==
    /\ run_pc = "summarize"
    /\ faults' = faults \cup {<<0, "summary">>}
    /\ run_pc' = "raised"
    /\ raised_by' = "summary"
    /\ UNCHANGED <<ontVars, retVars, appVars, eval_results, idx, sync_result, improvement_result, results,
                   total_score, overall, executive_summary, progress_log>>

\* Step 6 of the pipeline (app.py:360-367): the evaluation of the results
\* run_full_analysis returned.
RunEvaluation ==
    /\ run_pc = "returned"
    /\ eval_results' = run_evaluation(results)
    /\ run_pc' = "evaluated"
    /\ UNCHANGED <<ontVars, retVars, appVars, idx, sync_result, improvement_result, results,
                   total_score, overall, executive_summary, progress_log, faults,
                   raised_by>>

Init == RunInit

Next ==
    \/ ComputeAlignment
    \/ SyncAnswers
    \/ SyncFails
    \/ BlendScores
    \/ ImprovementAnswers
    \/ ImprovementFails
    \/ SkipImprovement
    \/ GuidanceAnswers
    \/ GuidanceFails
    \/ ComputeOverall
    \/ SummaryAnswers
    \/ SummaryFails
    \/ RunEvaluation

Spec == Init /\ [][Next]_vars

\* ---------------------------------------------------------- retrieve_chunks

RERANK_TOP_K == 5
RETRIEVAL_TOP_K == 10
\* variants[:4] of generate_multi_queries (hyde.py:119)
MultiQueryCap == 4
\* The most reformulation lines of a Language Model answer that survive the
\* filter of hyde.py:111-117.
MaxLines == 4

\* Chunks of the collection: a text is its first 100 characters and the rest.
Chunk(prefix, rest, source) == [prefix |-> prefix, rest |-> rest, source |-> source]
\* doc.page_content[:100] (retriever.py:87)
FusionKey(doc) == doc.prefix

Hit(doc, relevance) == [doc |-> doc, score |-> Milli(relevance)]
\* What one similarity search may return: six chunks, one more than the
\* default top_k; one chunk; two chunks
\* that share their first 100 characters; a third chunk ahead of the first;
\* two far chunks, whose relevance (1 - distance / sqrt 2 for the L2
\* distance of unit vectors) is below 0; one of these alone.
HitLists ==
    {<<Hit(Chunk(5, 0, 1), 500), Hit(Chunk(6, 0, 1), 400), Hit(Chunk(7, 0, 1), 300),
       Hit(Chunk(8, 0, 1), 200), Hit(Chunk(9, 0, 1), 100), Hit(Chunk(10, 0, 1), 50)>>,
     <<Hit(Chunk(1, 1, 1), 600)>>,
     <<Hit(Chunk(1, 1, 1), 600), Hit(Chunk(1, 2, 2), 600)>>,
     <<Hit(Chunk(2, 0, 1), 900), Hit(Chunk(1, 1, 1), 600)>>,
     <<Hit(Chunk(3, 0, 1), -200), Hit(Chunk(4, 0, 1), -100)>>,
     <<Hit(Chunk(4, 0, 1), -100)>>}

\* The query texts: the original, the LM's reformulations, the HyDE document.
OriginalQuery == <<"query", 0>>
Variant(i) == <<"variant", i>>
HydeDoc == <<"hyde_doc", 0>>

Take(seq, n) == SubSeq(seq, 1, IF n < Len(seq) THEN (IF n < 0 THEN 0 ELSE n) ELSE Len(seq))

\* generate_multi_queries (hyde.py:109-119) on an answer with n usable lines.
generate_multi_queries(n) ==
    Take(<<OriginalQuery>> \o [i \in 1..n |-> Variant(i)], MultiQueryCap)

\* The fusion in which a later chunk with the same key replaces the text
\* and metadata of the entry.
Fuse_KeepingLast(all, hit) ==
    LET doc_id == FusionKey(hit.doc)
    IN  IF \E i \in 1..Len(all) : all[i].key = doc_id
        THEN [i \in 1..Len(all) |->
                IF all[i].key = doc_id
                THEN [all[i] EXCEPT !.text = <<hit.doc.prefix, hit.doc.rest>>,
                                    !.metadata = hit.doc.source,
                                    !.score = RAdd(@, hit.score),
                                    !.retrieval_count = @ + 1]
                ELSE all[i]]
        ELSE Append(all, [key |-> doc_id, text |-> <<hit.doc.prefix, hit.doc.rest>>,
                          metadata |-> hit.doc.source, score |-> hit.score,
                          retrieval_count |-> 1])
\* retriever.py:87-98 for one (doc, score) of a result list.
Fuse(all, hit) ==
    LET doc_id == FusionKey(hit.doc)
    IN  IF \E i \in 1..Len(all) : all[i].key = doc_id
        THEN [i \in 1..Len(all) |->
                IF all[i].key = doc_id
                THEN [all[i] EXCEPT !.score = RAdd(@, hit.score),
                                    !.retrieval_count = @ + 1]
                ELSE all[i]]
        ELSE Append(all, [key |-> doc_id, text |-> <<hit.doc.prefix, hit.doc.rest>>,
                          metadata |-> hit.doc.source, score |-> hit.score,
                          retrieval_count |-> 1])

\* The loop of retriever.py:86-98 over one result list.
RECURSIVE FuseAll(_, _)
FuseAll(all, hits) ==
    IF hits = << >> THEN all ELSE FuseAll(Fuse(all, Head(hits)), Tail(hits))

\* sorted(..., key=score, reverse=True): stable, equal scores keep their order.
InsertByScore(sorted_items, item) ==
    LET ahead == {i \in 1..Len(sorted_items) : RGe(sorted_items[i].score, item.score)}
        n     == IF ahead = {} THEN 0
                 ELSE CHOOSE i \in ahead : \A j \in ahead : j <= i
    IN  SubSeq(sorted_items, 1, n) \o <<item>> \o
        SubSeq(sorted_items, n + 1, Len(sorted_items))
RECURSIVE SortedByScore(_)
SortedByScore(items) ==
    IF items = << >> THEN << >>
    ELSE InsertByScore(SortedByScore(SubSeq(items, 1, Len(items) - 1)),
                       items[Len(items)])

\* score * (1 + 0.1 * (retrieval_count - 1))  (retriever.py:108)
Boosted(item) ==
    [item EXCEPT !.score = RMul(@, Rat(10 + (item.retrieval_count - 1), 10))]

\* The ranking without the second sort of retriever.py:110.
Rerank_SortedOnce(all, k) ==
    LET first  == SortedByScore(all)
        lifted == [i \in 1..Len(first) |-> Boosted(first[i])]
    IN  Take(lifted, k)
\* retriever.py:102-113
Rerank(all, k) ==
    LET first  == SortedByScore(all)
        lifted == [i \in 1..Len(first) |-> Boosted(first[i])]
    IN  Take(SortedByScore(lifted), k)

\* retrieve_chunks(query, top_k=..., use_hyde=..., use_multi_query=...) is
\* called; no analysis run is under way.
RetrieveInit ==
    /\ action_text = [rows |-> << >>, tags |-> << >>]
    /\ knowledge_graph = {}
    /\ ontology_alignment = NoAlignment
    /\ gap_report = NoAlignment
    /\ o_pc = "idle"
    /\ run_pc = "idle"
    /\ idx = 0
    /\ sync_result = NoRecord
    /\ improvement_result = "None"
    /\ results = NoRecord
    /\ total_score = Rat(0, 1)
    /\ overall = NoRecord
    /\ executive_summary = ""
    /\ progress_log = << >>
    /\ faults = {}
    /\ raised_by = ""
    /\ eval_results = NoRecord
    /\ d_pc = "off"
    /\ cache_file = MissingFile
    /\ cached = NotLoaded
    /\ pipeline_run = FALSE
    /\ pipeline_running = FALSE
    /\ run_pipeline = FALSE
    /\ session_results = "None"
    /\ clicked = FALSE
    /\ force_rerun = FALSE
    /\ last_run = "none"
    /\ p_pc = [c \in Callers |-> At("off", 0, 0)]
    /\ p_running = [c \in Callers |-> FALSE]
    /\ index = [k \in 1..3 |-> NoCollection(0)]
    /\ handle = [c \in Callers |-> 0]
    /\ observed = [c \in Callers |-> "nothing"]
    /\ t_pc = "off"
    /\ t_idx = 0
    /\ tool_log = << >>
    /\ r_pc = "expand"
    /\ use_multi_query \in BOOLEAN
    /\ use_hyde \in BOOLEAN
    /\ top_k \in {<< >>, <<1>>, <<2>>}
    /\ queries = << >>
    /\ q_idx = 0
    /\ searched = << >>
    /\ search_log = << >>
    /\ all_results = << >>
    /\ ranked = << >>
    /\ retrieval_faults = {}

\* retriever.py:60-61 when generate_multi_queries returns.
MultiQueryAnswers ==
    /\ r_pc = "expand"
    /\ use_multi_query
    /\ \E n \in 0..MaxLines : queries' = generate_multi_queries(n)
    /\ r_pc' = "hyde"
    /\ UNCHANGED <<ontVars, runVars, appVars, search_log, use_multi_query, use_hyde, top_k, q_idx,
                   searched, all_results, ranked, retrieval_faults>>

\* retriever.py:60-61 when the call inside generate_multi_queries raises:
\* neither hyde.py:90-119 nor the call site catches it.
MultiQueryFails ==
    /\ r_pc = "expand"
    /\ use_multi_query
    /\ retrieval_faults' = retrieval_faults \cup {"multi_query"}
    /\ r_pc' = "raised"
    /\ UNCHANGED <<ontVars, runVars, appVars, search_log, use_multi_query, use_hyde, top_k, queries,
                   q_idx, searched, all_results, ranked>>

\* retriever.py:62-63
MultiQueryOff ==
    /\ r_pc = "expand"
    /\ ~use_multi_query
    /\ queries' = <<OriginalQuery>>
    /\ r_pc' = "hyde"
    /\ UNCHANGED <<ontVars, runVars, appVars, search_log, use_multi_query, use_hyde, top_k, q_idx,
                   searched, all_results, ranked, retrieval_faults>>

\* retriever.py:66-69 when generate_hyde_document returns.
HydeAnswers ==
    /\ r_pc = "hyde"
    /\ use_hyde
    /\ queries' = Append(queries, HydeDoc)
    /\ q_idx' = 1
    /\ r_pc' = "search"
    /\ UNCHANGED <<ontVars, runVars, appVars, search_log, use_multi_query, use_hyde, top_k, searched,
                   all_results, ranked, retrieval_faults>>

\* retriever.py:66-71 when generate_hyde_document raises: except, pass.
HydeFails ==
    /\ r_pc = "hyde"
    /\ use_hyde
    /\ retrieval_faults' = retrieval_faults \cup {"hyde"}
    /\ q_idx' = 1
    /\ r_pc' = "search"
    /\ UNCHANGED <<ontVars, runVars, appVars, search_log, use_multi_query, use_hyde, top_k, queries,
                   searched, all_results, ranked>>

HydeOff ==
    /\ r_pc = "hyde"
    /\ ~use_hyde
    /\ q_idx' = 1
    /\ r_pc' = "search"
    /\ UNCHANGED <<ontVars, runVars, appVars, search_log, use_multi_query, use_hyde, top_k, queries,
                   searched, all_results, ranked, retrieval_faults>>

\* One turn of the loop of retriever.py:76-98 whose search returns.
SearchAnswers ==
    /\ r_pc = "search"
    /\ q_idx <= Len(queries)
    /\ \E hits \in HitLists :
          /\ Len(hits) <= RETRIEVAL_TOP_K
          /\ all_results' = FuseAll(all_results, hits)
          /\ search_log' = Append(search_log, <<queries[q_idx], hits>>)
    /\ searched' = Append(searched, queries[q_idx])
    /\ q_idx' = q_idx + 1
    /\ UNCHANGED <<ontVars, runVars, appVars, r_pc, use_multi_query, use_hyde, top_k,
                   queries, ranked, retrieval_faults>>

\* One turn of the loop whose search raises: except, continue
\* (retriever.py:99-100).
SearchFails ==
    /\ r_pc = "search"
    /\ q_idx <= Len(queries)
    /\ searched' = Append(searched, queries[q_idx])
    /\ retrieval_faults' = retrieval_faults \cup {"search"}
    /\ q_idx' = q_idx + 1
    /\ UNCHANGED <<ontVars, runVars, appVars, search_log, r_pc, use_multi_query, use_hyde, top_k,
                   queries, all_results, ranked>>

\* retriever.py:54-55 and 102-113
RankAndReturn ==
    /\ r_pc = "search"
    /\ q_idx > Len(queries)
    /\ ranked' = Rerank(all_results, IF top_k = << >> THEN RERANK_TOP_K ELSE top_k[1])
    /\ r_pc' = "returned"
    /\ UNCHANGED <<ontVars, runVars, appVars, search_log, use_multi_query, use_hyde, top_k, queries,
                   q_idx, searched, all_results, retrieval_faults>>

RetrieveNext ==
    \/ MultiQueryAnswers
    \/ MultiQueryFails
    \/ MultiQueryOff
    \/ HydeAnswers
    \/ HydeFails
    \/ HydeOff
    \/ SearchAnswers
    \/ SearchFails
    \/ RankAndReturn

SpecRetrieve == RetrieveInit /\ [][RetrieveNext]_vars

\* ------------------------------------------------------ a dashboard session

\* A browser session opens the dashboard: the script runs for the first
\* time, over whatever the cache file holds (app.py:213-223).
DashInit ==
    /\ action_text = [rows |-> << >>, tags |-> << >>]
    /\ knowledge_graph = {}
    /\ ontology_alignment = NoAlignment
    /\ gap_report = NoAlignment
    /\ o_pc = "idle"
    /\ run_pc = "idle"
    /\ idx = 0
    /\ sync_result = NoRecord
    /\ improvement_result = "None"
    /\ results = NoRecord
    /\ total_score = Rat(0, 1)
    /\ overall = NoRecord
    /\ executive_summary = ""
    /\ progress_log = << >>
    /\ faults = {}
    /\ raised_by = ""
    /\ eval_results = NoRecord
    /\ r_pc = "idle"
    /\ use_multi_query = FALSE
    /\ use_hyde = FALSE
    /\ top_k = << >>
    /\ queries = << >>
    /\ q_idx = 0
    /\ searched = << >>
    /\ search_log = << >>
    /\ all_results = << >>
    /\ ranked = << >>
    /\ retrieval_faults = {}
    /\ d_pc = "autoload"
    /\ cache_file \in CacheFiles
    /\ cached = NotLoaded
    /\ pipeline_run = FALSE
    /\ pipeline_running = FALSE
    /\ run_pipeline = FALSE
    /\ session_results = "None"
    /\ clicked = FALSE
    /\ force_rerun = FALSE
    /\ last_run = "none"
    /\ p_pc = [c \in Callers |-> At("off", 0, 0)]
    /\ p_running = [c \in Callers |-> FALSE]
    /\ index = [k \in 1..3 |-> NoCollection(0)]
    /\ handle = [c \in Callers |-> 0]
    /\ observed = [c \in Callers |-> "nothing"]
    /\ t_pc = "off"
    /\ t_idx = 0
    /\ tool_log = << >>

\* The user touches a widget after a script run is over: the script runs
\* again from the top, the session state kept.
ScriptStarts ==
    /\ d_pc \in {"idle", "crashed"}
    /\ clicked' \in BOOLEAN
    /\ force_rerun' \in BOOLEAN
    /\ d_pc' = "autoload"
    /\ UNCHANGED <<ontVars, runVars, retVars, parVars, toolVars, cache_file, cached, pipeline_run,
                   pipeline_running, run_pipeline, session_results, last_run>>

\* app.py:225-233.  The call of load_pipeline_cache stands in no try block:
\* when it raises, and when cached has no .get, the script run ends there.
AutoLoad ==
    /\ d_pc = "autoload"
    /\ IF ~pipeline_run /\ ~pipeline_running
       THEN LET c == load_pipeline_cache(cache_file)
            IN  /\ cached' = c
                /\ IF c.outcome = "data" /\ c.data.kind = "object"
                   THEN /\ session_results' = "cache"
                        /\ pipeline_run' = TRUE
                        /\ d_pc' = "sidebar"
                   ELSE /\ d_pc' = IF c.outcome = "None" THEN "sidebar" ELSE "crashed"
                        /\ UNCHANGED <<session_results, pipeline_run>>
       ELSE /\ d_pc' = "sidebar"
            /\ UNCHANGED <<cached, session_results, pipeline_run>>
    /\ UNCHANGED <<ontVars, runVars, retVars, parVars, toolVars, cache_file, pipeline_running, run_pipeline,
                   clicked, force_rerun, last_run>>

\* app.py:266-275
Sidebar ==
    /\ d_pc = "sidebar"
    /\ IF clicked
       THEN /\ run_pipeline' = TRUE
            /\ IF force_rerun
               THEN /\ cache_file' = MissingFile
                    /\ pipeline_run' = FALSE
                    /\ session_results' = "None"
               ELSE UNCHANGED <<cache_file, pipeline_run, session_results>>
       ELSE UNCHANGED <<run_pipeline, cache_file, pipeline_run, session_results>>
    /\ d_pc' = "runner"
    /\ UNCHANGED <<ontVars, runVars, retVars, parVars, toolVars, cached, pipeline_running, clicked,
                   force_rerun, last_run>>

\* app.py:288-290
StartRun ==
    /\ d_pc = "runner"
    /\ run_pipeline /\ ~pipeline_running
    /\ run_pipeline' = FALSE
    /\ pipeline_running' = TRUE
    /\ d_pc' = "running"
    /\ UNCHANGED <<ontVars, runVars, retVars, parVars, toolVars, cache_file, cached, pipeline_run,
                   session_results, clicked, force_rerun, last_run>>

\* app.py:288 when the test fails: the script run goes on to the page.
NoRun ==
    /\ d_pc = "runner"
    /\ ~(run_pipeline /\ ~pipeline_running)
    /\ d_pc' = "idle"
    /\ UNCHANGED <<ontVars, runVars, retVars, parVars, toolVars, cache_file, cached, pipeline_run,
                   pipeline_running, run_pipeline, session_results, clicked,
                   force_rerun, last_run>>

\* app.py:295-381: every step of the try block returns.
RunCompletes ==
    /\ d_pc = "running"
    /\ session_results' = "run"
    /\ cache_file' = SavedSnapshot
    /\ pipeline_run' = TRUE
    /\ pipeline_running' = FALSE
    /\ last_run' = "completed"
    /\ d_pc' = "idle"
    /\ UNCHANGED <<ontVars, runVars, retVars, parVars, toolVars, cached, run_pipeline, clicked, force_rerun>>

\* app.py:383-387: a step of the try block raises an Exception, before or
\* after the results were stored at app.py:358.
RunFails ==
    /\ d_pc = "running"
    /\ \E stored \in BOOLEAN :
          session_results' = IF stored THEN "run" ELSE session_results
    /\ pipeline_running' = FALSE
    /\ last_run' = "failed"
    /\ d_pc' = "idle"
    /\ UNCHANGED <<ontVars, runVars, retVars, parVars, toolVars, cache_file, cached, pipeline_run,
                   run_pipeline, clicked, force_rerun>>

\* The user touches a widget while the pipeline runs.  The framework stops
\* the script run at its next st.* call (the progress bar of app.py:297-378
\* and 355) by raising a script control exception there, which is a
\* BaseException and so passes the `except Exception` of app.py:383; the
\* script then runs again from the top.
RunInterrupted ==
    /\ d_pc = "running"
    /\ clicked' \in BOOLEAN
    /\ force_rerun' \in BOOLEAN
    /\ last_run' = "interrupted"
    /\ d_pc' = "autoload"
    /\ UNCHANGED <<ontVars, runVars, retVars, parVars, toolVars, cache_file, cached, pipeline_run,
                   pipeline_running, run_pipeline, session_results>>

DashNext ==
    \/ ScriptStarts
    \/ AutoLoad
    \/ Sidebar
    \/ StartRun
    \/ NoRun
    \/ RunCompletes
    \/ RunFails
    \/ RunInterrupted

SpecDashboard == DashInit /\ [][DashNext]_vars

\* ------------------------------------------- two callers, one chunk index

\* Two sessions are open, each with pipeline_running False and a pending run
\* request; the index holds what an earlier run left, or nothing.
ParInit ==
    /\ action_text = [rows |-> << >>, tags |-> << >>]
    /\ knowledge_graph = {}
    /\ ontology_alignment = NoAlignment
    /\ gap_report = NoAlignment
    /\ o_pc = "idle"
    /\ run_pc = "idle"
    /\ idx = 0
    /\ sync_result = NoRecord
    /\ improvement_result = "None"
    /\ results = NoRecord
    /\ total_score = Rat(0, 1)
    /\ overall = NoRecord
    /\ executive_summary = ""
    /\ progress_log = << >>
    /\ faults = {}
    /\ raised_by = ""
    /\ eval_results = NoRecord
    /\ r_pc = "idle"
    /\ use_multi_query = FALSE
    /\ use_hyde = FALSE
    /\ top_k = << >>
    /\ queries = << >>
    /\ q_idx = 0
    /\ searched = << >>
    /\ search_log = << >>
    /\ all_results = << >>
    /\ ranked = << >>
    /\ retrieval_faults = {}
    /\ d_pc = "off"
    /\ cache_file = MissingFile
    /\ cached = NotLoaded
    /\ pipeline_run = FALSE
    /\ pipeline_running = FALSE
    /\ run_pipeline = FALSE
    /\ session_results = "None"
    /\ clicked = FALSE
    /\ force_rerun = FALSE
    /\ last_run = "none"
    /\ p_pc = [c \in Callers |-> At("requested", 0, 0)]
    /\ p_running = [c \in Callers |-> FALSE]
    /\ index \in {[k \in 1..3 |-> NoCollection(0)],
                  [k \in 1..3 |-> [exists |-> TRUE, gen |-> 1, batches |-> 1..MaxBatches]]}
    /\ handle = [c \in Callers |-> 0]
    /\ observed = [c \in Callers |-> "nothing"]
    /\ t_pc = "off"
    /\ t_idx = 0
    /\ tool_log = << >>

\* app.py:288-290 in the caller's session: the test reads that session's flag.
PStartRun(c) ==
    /\ p_pc[c].phase = "requested"
    /\ ~p_running[c]
    /\ p_running' = [p_running EXCEPT ![c] = TRUE]
    /\ p_pc' = [p_pc EXCEPT ![c] = At("clear", 1, 0)]
    /\ UNCHANGED <<ontVars, runVars, retVars, dashVars, toolVars, index, handle, observed>>

\* clear_all_collections (vector_store.py:163-170), one delete_collection at
\* a time; deleting a collection that does not exist raises and is passed.
PDeleteCollection(c) ==
    /\ p_pc[c].phase = "clear"
    /\ LET k == p_pc[c].col
       IN  /\ index' = [index EXCEPT ![k] = NoCollection(index[k].gen)]
           /\ p_pc' = [p_pc EXCEPT ![c] = IF k < 3 THEN At("clear", k + 1, 0)
                                          ELSE At("ingest", 1, 0)]
    /\ UNCHANGED <<ontVars, runVars, retVars, dashVars, toolVars, p_running, handle, observed>>

\* ingest_chunks obtains the collection (vector_store.py:48-49).
POpenCollection(c) ==
    /\ p_pc[c].phase = "ingest"
    /\ p_pc[c].batch = 0
    /\ LET k == p_pc[c].col
       IN  /\ index' = [index EXCEPT ![k] = get_or_create_collection(index[k])]
           /\ handle' = [handle EXCEPT ![c] = get_or_create_collection(index[k]).gen]
           /\ p_pc' = [p_pc EXCEPT ![c] = At("ingest", k, 1)]
    /\ UNCHANGED <<ontVars, runVars, retVars, dashVars, toolVars, p_running, observed>>

\* collection.add of one batch (vector_store.py:72-85), and the step after
\* the last batch of ingest_all_chunks (vector_store.py:104-115).  The add
\* raises when the collection object in hand was deleted meanwhile; for ids
\* that are already there the store either ignores the add or raises.  A
\* raise reaches the except clause of app.py:383-384.
PAddBatch(c) ==
    /\ p_pc[c].phase = "ingest"
    /\ p_pc[c].batch >= 1
    /\ LET k == p_pc[c].col
           b == p_pc[c].batch
           next == IF b < MaxBatches THEN At("ingest", k, b + 1)
                   ELSE IF k < 3 THEN At("ingest", k + 1, 0)
                   ELSE At("analysis", 0, 0)
           added == /\ index' = [index EXCEPT ![k].batches = @ \cup {b}]
                    /\ p_pc' = [p_pc EXCEPT ![c] = next]
                    /\ UNCHANGED p_running
           raised == /\ p_pc' = [p_pc EXCEPT ![c] = At("failed", 0, 0)]
                     /\ p_running' = [p_running EXCEPT ![c] = FALSE]
                     /\ UNCHANGED index
       IN  IF ~index[k].exists \/ index[k].gen # handle[c] THEN raised
           ELSE IF b \in index[k].batches THEN added \/ raised
           ELSE added
    /\ UNCHANGED <<ontVars, runVars, retVars, dashVars, toolVars, handle, observed>>

\* A retrieval of the analysis (orchestrator.py:58-59 through
\* retrieve_for_objective, retriever.py:116-142): the store object is made
\* over the action_plan collection as it is at this moment.
PRetrieve(c) ==
    /\ p_pc[c].phase = "analysis"
    /\ LET col == get_or_create_collection(index[ActionCollection])
       IN  /\ index' = [index EXCEPT ![ActionCollection] = col]
           /\ observed' = [observed EXCEPT ![c] = SearchFinds(col)]
    /\ p_pc' = [p_pc EXCEPT ![c] = At("retrieved", 0, 0)]
    /\ UNCHANGED <<ontVars, runVars, retVars, dashVars, toolVars, p_running, handle>>

\* app.py:378-380
PFinish(c) ==
    /\ p_pc[c].phase = "retrieved"
    /\ p_running' = [p_running EXCEPT ![c] = FALSE]
    /\ p_pc' = [p_pc EXCEPT ![c] = At("done", 0, 0)]
    /\ UNCHANGED <<ontVars, runVars, retVars, dashVars, toolVars, index, handle, observed>>

ParNext ==
    \E c \in Callers :
        \/ PStartRun(c)
        \/ PDeleteCollection(c)
        \/ POpenCollection(c)
        \/ PAddBatch(c)
        \/ PRetrieve(c)
        \/ PFinish(c)

SpecParallel == ParInit /\ [][ParNext]_vars

\* ------------------------------------------------- the agents' tool calls

\* Tool calls followed in one run.
MaxCalls == 2

\* What an agent can pass to a tool that takes an objective id: a configured
\* id or a string that is no key of STRATEGIC_OBJECTIVES (0).
ToolArgs == ObjectiveIds \cup {0}

\* The value of the parameter oid of a closure defined with oid=obj_id
\* (orchestrator.py:59, 66, 70, 83): the argument when one is passed, the
\* captured id when none is.
NoArgument == -1
Oid(captured, passed) == IF passed = NoArgument THEN captured ELSE passed

\* What a call took: the objectives whose data it read, and whether it raised.
Took(read, raised) == [read |-> read, raised |-> raised]

\* orchestrator.py:59-64: STRATEGIC_OBJECTIVES[oid] is evaluated for the
\* call to retrieve_for_objective, before anything is retrieved.
retrieve_fn(captured, passed) ==
    LET oid == Oid(captured, passed)
    IN  IF oid \in ObjectiveIds THEN Took({oid}, FALSE) ELSE Took({}, TRUE)
\* orchestrator.py:66-68
ontology_fn(captured, passed) == Took({Oid(captured, passed)}, FALSE)
\* orchestrator.py:70-81: the mapping is read, then the heading line looks
\* the name up.
kpi_coverage_fn(captured, passed) ==
    LET oid == Oid(captured, passed)
    IN  Took({oid}, oid \notin ObjectiveIds)
\* orchestrator.py:83-85
gap_fn(captured, passed) == Took({Oid(captured, passed)}, FALSE)
\* orchestrator.py:87-92: obj_id of the iteration, and retrieve_fn() with no
\* argument.
suggest_fn(obj_id) == Took({obj_id} \cup retrieve_fn(obj_id, NoArgument).read, FALSE)

\* The tools of the judging agent (sync_agent.py:30-46).
SyncTools == {"retrieve_action_chunks", "query_ontology", "check_kpi_coverage"}
\* The tools of the improving agent (improvement_agent.py:27-42).
ImprovementTools == {"identify_gaps", "retrieve_context", "generate_suggestion"}

\* What a tool does with the argument the agent gives it, during the
\* iteration of obj_id.
ToolCall(tool, obj_id, arg) ==
    CASE tool \in {"retrieve_action_chunks", "retrieve_context"} -> retrieve_fn(obj_id, arg)
      [] tool = "query_ontology" -> ontology_fn(obj_id, arg)
      [] tool = "check_kpi_coverage" -> kpi_coverage_fn(obj_id, arg)
      [] tool = "identify_gaps" -> gap_fn(obj_id, arg)
      [] tool = "generate_suggestion" -> suggest_fn(obj_id)

Called(tool, obj_id, arg) ==
    [during |-> obj_id, tool |-> tool, arg |-> arg,
     read |-> ToolCall(tool, obj_id, arg).read,
     raised |-> ToolCall(tool, obj_id, arg).raised]

ToolsInit ==
    /\ action_text = [rows |-> << >>, tags |-> << >>]
    /\ knowledge_graph = {}
    /\ ontology_alignment = NoAlignment
    /\ gap_report = NoAlignment
    /\ o_pc = "idle"
    /\ run_pc = "idle"
    /\ idx = 0
    /\ sync_result = NoRecord
    /\ improvement_result = "None"
    /\ results = NoRecord
    /\ total_score = Rat(0, 1)
    /\ overall = NoRecord
    /\ executive_summary = ""
    /\ progress_log = << >>
    /\ faults = {}
    /\ raised_by = ""
    /\ eval_results = NoRecord
    /\ r_pc = "idle"
    /\ use_multi_query = FALSE
    /\ use_hyde = FALSE
    /\ top_k = << >>
    /\ queries = << >>
    /\ q_idx = 0
    /\ searched = << >>
    /\ search_log = << >>
    /\ all_results = << >>
    /\ ranked = << >>
    /\ retrieval_faults = {}
    /\ d_pc = "off"
    /\ cache_file = MissingFile
    /\ cached = NotLoaded
    /\ pipeline_run = FALSE
    /\ pipeline_running = FALSE
    /\ run_pipeline = FALSE
    /\ session_results = "None"
    /\ clicked = FALSE
    /\ force_rerun = FALSE
    /\ last_run = "none"
    /\ p_pc = [c \in Callers |-> At("off", 0, 0)]
    /\ p_running = [c \in Callers |-> FALSE]
    /\ index = [k \in 1..3 |-> NoCollection(0)]
    /\ handle = [c \in Callers |-> 0]
    /\ observed = [c \in Callers |-> "nothing"]
    /\ t_pc = "loop"
    /\ t_idx = 0
    /\ tool_log = << >>

\* orchestrator.py:54-97: the next objective is taken and the judging agent
\* is started with the closures made for it; after the last one the loop ends.
TNextObjective ==
    /\ t_pc = "loop"
    /\ IF t_idx < NumObjectives
       THEN t_idx' = t_idx + 1 /\ t_pc' = "sync"
       ELSE t_pc' = "done" /\ UNCHANGED t_idx
    /\ UNCHANGED <<ontVars, runVars, retVars, dashVars, parVars, tool_log>>

\* The judging agent calls one of its tools with an argument of its choosing
\* (sync_agent.py:30-46).  A raise inside the tool ends the agent's run.
TSyncToolCall ==
    /\ t_pc = "sync"
    /\ Len(tool_log) < MaxCalls
    /\ \E tool \in SyncTools, arg \in ToolArgs :
          LET call == Called(tool, STRATEGIC_OBJECTIVES[t_idx], arg)
          IN  /\ tool_log' = Append(tool_log, call)
              /\ t_pc' = IF call.raised THEN "judged" ELSE "sync"
    /\ UNCHANGED <<ontVars, runVars, retVars, dashVars, parVars, t_idx>>

\* The judging agent returns (orchestrator.py:95-97).
TSyncEnds ==
    /\ t_pc = "sync"
    /\ t_pc' = "judged"
    /\ UNCHANGED <<ontVars, runVars, retVars, dashVars, parVars, t_idx, tool_log>>

\* orchestrator.py:140-148: the improving agent is started when the level
\* calls for it.
TDecide ==
    /\ t_pc = "judged"
    /\ t_pc' \in {"improve", "loop"}
    /\ UNCHANGED <<ontVars, runVars, retVars, dashVars, parVars, t_idx, tool_log>>

\* The improving agent calls one of its tools (improvement_agent.py:27-42).
TImprovementToolCall ==
    /\ t_pc = "improve"
    /\ Len(tool_log) < MaxCalls
    /\ \E tool \in ImprovementTools, arg \in ToolArgs :
          LET call == Called(tool, STRATEGIC_OBJECTIVES[t_idx], arg)
          IN  /\ tool_log' = Append(tool_log, call)
              /\ t_pc' = IF call.raised THEN "loop" ELSE "improve"
    /\ UNCHANGED <<ontVars, runVars, retVars, dashVars, parVars, t_idx>>

\* The improving agent returns (orchestrator.py:142-148).
TImprovementEnds ==
    /\ t_pc = "improve"
    /\ t_pc' = "loop"
    /\ UNCHANGED <<ontVars, runVars, retVars, dashVars, parVars, t_idx, tool_log>>

ToolsNext ==
    \/ TNextObjective
    \/ TSyncToolCall
    \/ TSyncEnds
    \/ TDecide
    \/ TImprovementToolCall
    \/ TImprovementEnds

SpecTools == ToolsInit /\ [][ToolsNext]_vars

\* ================================================================== claims

\* r, a rational whose denominator divides scale, is a multiple of 1/scale
\* nearest to n/d.
NearestUnits(r, n, d, scale) ==
    LET u == r.num * (scale \div r.den)
        e == u * d - scale * n
    IN  /\ scale % r.den = 0
        /\ 2 * e <= d
        /\ -2 * e <= d

InUnitInterval(r) == r.num >= 0 /\ r.num <= r.den

\* The quantities of the scorer, read off the graph's triples.
LinkedActions(o) ==
    {t[1] : t \in {u \in knowledge_graph :
                      u[2] = "supportsObjective" /\ u[3] = <<"SO", o, 0>>}}
KpisUnder(o) ==
    {t[3] : t \in {u \in knowledge_graph : u[1] = <<"SO", o, 0>> /\ u[2] = "hasKPI"}}
KpisSupportedFrom(o) ==
    {t[3] : t \in {u \in knowledge_graph :
                      u[1] \in LinkedActions(o) /\ u[2] = "supportsKPI"}}
ProgressEntries(o) ==
    {<<t[1], t[3][2]>> : t \in {u \in knowledge_graph :
                      u[1] \in LinkedActions(o) /\ u[2] = "hasProgress"}}
\* Numerator and denominator of
\*   0.4 * min(a / K, 1) + 0.4 * kc / K + 0.2 * (S / n) / 100   (n = 1, S = 0
\* when there is no progress entry), for K > 0.
ScoreNum(a, kc, K, S, n) ==
    400 * (IF a < K THEN a ELSE K) * n + 400 * kc * n + 2 * S * K
ScoreDen(K, n) == 1000 * K * n
CutPointLevel(num, den) ==
    IF 4 * num >= 3 * den THEN "Full"
    ELSE IF 2 * num >= den THEN "Partial"
    ELSE IF 4 * num >= den THEN "Weak"
    ELSE "Missing"

\* C2: for every graph the builder produces, every configured objective's
\* reported alignment_score lies in [0,1].
C2_AlignmentScoreInUnitInterval ==
    o_pc = "scored" =>
        \A o \in ObjectiveIds : InUnitInterval(ontology_alignment[o].alignment_score)

\* C2: a scored graph whose objective has one action row with a progress
\* cell above 100%, and a reported alignment_score above 1.
C2_Witness ==
    /\ o_pc = "scored"
    /\ \E o \in ObjectiveIds :
          /\ \E e \in ProgressEntries(o) : e[2] > 100
          /\ ontology_alignment[o].alignment_score.num >
                ontology_alignment[o].alignment_score.den

\* C5: for each objective with K KPIs, A the actions linked to it by
\* supportsObjective, Kc the KPIs under that objective that some action in A
\* supports, and the progress entries of the actions in A: the record reports
\* total_actions = |A|, kpis_covered = |Kc|, kpi_coverage = |Kc|/K and
\* alignment_score = 0.4*min(|A|/K,1) + 0.4*|Kc|/K + 0.2*avg_progress/100
\* (each to a nearest thousandth), avg_progress = the mean of the progress
\* entries, 0 without any (to a nearest tenth), and the level of the score at
\* lower-inclusive cut points 0.75 / 0.50 / 0.25.
C5_OntologyFormula ==
    o_pc = "scored" =>
        \A o \in ObjectiveIds :
            LET rec == ontology_alignment[o]
                a   == Cardinality(LinkedActions(o))
                K   == Cardinality(KpisUnder(o))
                kc  == Cardinality(KpisSupportedFrom(o) \cap KpisUnder(o))
                pv  == ProgressEntries(o)
                S   == SumProgress(pv)
                n   == IF pv = {} THEN 1 ELSE Cardinality(pv)
                num == ScoreNum(a, kc, K, S, n)
                den == ScoreDen(K, n)
            IN  K > 0 =>
                  /\ rec.total_actions = a
                  /\ rec.total_kpis = K
                  /\ rec.kpis_covered = kc
                  /\ NearestUnits(rec.kpi_coverage, kc, K, 1000)
                  /\ NearestUnits(rec.avg_progress, S, n, 10)
                  /\ NearestUnits(rec.alignment_score, num, den, 1000)
                  /\ rec.alignment_level = CutPointLevel(num, den)

\* C5: a scored graph in which an action linked to an objective supports a
\* KPI node that is not one of the objective's KPIs, and the record counts it.
C5_Witness ==
    /\ o_pc = "scored"
    /\ \E o \in ObjectiveIds :
          /\ KpisSupportedFrom(o) \ KpisUnder(o) # {}
          /\ ontology_alignment[o].kpis_covered =
                Cardinality(KpisSupportedFrom(o))

\* A judged objective in hand that has been blended / a stored objective.
Blended == run_pc \in {"improve", "guide"}
Stored  == DOMAIN results

\* C1: for every Language Model answer, every published agent_score and
\* combined_score, and the overall_score, lie in [0,1].
C1_ScoresInUnitInterval ==
    /\ \A o \in Stored :
          /\ InUnitInterval(results[o].sync_assessment.alignment_score)
          /\ InUnitInterval(results[o].sync_assessment.combined_score)
          /\ InUnitInterval(results[o].combined_score)
    /\ run_pc \in {"summarize", "returned"} => InUnitInterval(overall.overall_score)

\* C1: an objective stored from an answer without KPI lists whose
\* ALIGNMENT_SCORE is above 1, published with that score as its agent score.
C1_Witness ==
    \E o \in Stored :
        LET sa == results[o].sync_assessment
        IN  /\ sa.covered_kpis = << >> /\ sa.uncovered_kpis = << >>
            /\ sa.error = ""
            /\ sa.alignment_score = Milli(2500)

\* The step of orchestrator.py:99-138 on the objective in hand.
BlendStep == run_pc = "blend" /\ run_pc' = "improve"
\* The step of orchestrator.py:162-183 that publishes the objective in hand.
StoreStep == run_pc = "guide" /\ run_pc' = "judge"

\* Numerator and denominator of clamp(0.8 * c/(c+u) + 0.2 * raw, 0, 1), for
\* c + u > 0.
ClampedNum(c, u, raw) ==
    LET num == 8 * c * raw.den + 2 * raw.num * (c + u)
        den == 10 * (c + u) * raw.den
    IN  IF num < 0 THEN 0 ELSE IF num > den THEN den ELSE num
ClampedDen(c, u, raw) == 10 * (c + u) * raw.den

\* C3 (as claimed): when the judgment lists KPIs, agent_score is exactly
\* clamp(0.8 * covered/(covered+uncovered) + 0.2 * raw_score, 0, 1); when it
\* lists none, agent_score is the raw score; the published record carries it.
C3_AgentScoreExact ==
    [][/\ BlendStep =>
            LET c   == Len(sync_result.covered_kpis)
                u   == Len(sync_result.uncovered_kpis)
                raw == sync_result.alignment_score
            IN  IF c + u > 0
                THEN sync_result'.alignment_score =
                        Rat(ClampedNum(c, u, raw), ClampedDen(c, u, raw))
                ELSE sync_result'.alignment_score = raw
       /\ StoreStep =>
            results'[loop_obj_id].sync_assessment.alignment_score =
                sync_result.alignment_score]_vars

\* C3 (amended): when the judgment lists KPIs, agent_score is
\* clamp(0.8 * covered/(covered+uncovered) + 0.2 * raw_score, 0, 1) rounded
\* to a nearest thousandth (3 covered, 1 uncovered, raw 0.9 gives 0.78); when
\* it lists none, agent_score is the raw score unchanged; the published sync
\* assessment carries agent_score in place of the raw score.
C3_AgentScoreRounded ==
    [][/\ BlendStep =>
            LET c   == Len(sync_result.covered_kpis)
                u   == Len(sync_result.uncovered_kpis)
                raw == sync_result.alignment_score
            IN  IF c + u > 0
                THEN /\ NearestUnits(sync_result'.alignment_score,
                                     ClampedNum(c, u, raw), ClampedDen(c, u, raw), 1000)
                     /\ (c = 3 /\ u = 1 /\ raw = Rat(9, 10)) =>
                            sync_result'.alignment_score = Rat(78, 100)
                ELSE sync_result'.alignment_score = raw
       /\ StoreStep =>
            results'[loop_obj_id].sync_assessment.alignment_score =
                sync_result.alignment_score]_vars

\* C3: an objective published with 1 covered and 2 uncovered KPIs and the
\* agent score 0.447 (raw score 0.9: 0.8/3 + 0.18 = 0.44666...), next to
\* nothing else that the raw scores of the answers could give.
C3_Witness ==
    \E o \in Stored :
        LET sa == results[o].sync_assessment
        IN  /\ Len(sa.covered_kpis) = 1 /\ Len(sa.uncovered_kpis) = 2
            /\ sa.alignment_score = Milli(447)

\* The level of the cut points 0.8 / 0.6 / 0.4, lower edges inclusive.
BlendedLevel(c) ==
    IF 10 * c.num >= 8 * c.den THEN "Full"
    ELSE IF 10 * c.num >= 6 * c.den THEN "Partial"
    ELSE IF 10 * c.num >= 4 * c.den THEN "Weak"
    ELSE "Missing"
LevelRank(level) ==
    CASE level = "Full" -> 3 [] level = "Partial" -> 2
      [] level = "Weak" -> 1 [] OTHER -> 0
\* c = 0.8 * a + 0.2 * o
IsBlendOf(c, a, o) ==
    c = Rat(8 * a.num * o.den + 2 * o.num * a.den, 10 * a.den * o.den)

\* C4: every published objective has combined_score = 0.8 * agent_score +
\* 0.2 * ontology_score (the ontology scorer's score for that objective; the
\* sync assessment carries it to a nearest thousandth), and its published
\* alignment_level is Full iff combined >= 0.8, Partial iff 0.6 <= combined <
\* 0.8, Weak iff 0.4 <= combined < 0.6, Missing otherwise, whatever level the
\* Language Model stated; a higher combined_score never has a lower level;
\* agent 0.78 with ontology 0.5 gives 0.724, Partial.
C4_CombinedScoreAndLevel ==
    /\ \A o \in Stored :
          LET r == results[o]
          IN  /\ r.ontology_score = ontology_alignment[o].alignment_score
              /\ IsBlendOf(r.combined_score, r.sync_assessment.alignment_score,
                           r.ontology_score)
              /\ NearestUnits(r.sync_assessment.combined_score,
                              r.combined_score.num, r.combined_score.den, 1000)
              /\ r.sync_assessment.alignment_level = BlendedLevel(r.combined_score)
    /\ \A o1, o2 \in Stored :
          RGe(results[o1].combined_score, results[o2].combined_score) =>
              LevelRank(results[o1].sync_assessment.alignment_level) >=
              LevelRank(results[o2].sync_assessment.alignment_level)
    /\ Blended => sync_result.alignment_level = BlendedLevel(current_combined_score)
    /\ CombinedScore(Rat(78, 100), Rat(5, 10)) = Rat(724, 1000)
    /\ ClassifyCombined(CombinedScore(Rat(78, 100), Rat(5, 10))) = "Partial"

\* C4: a run that published one objective at combined_score exactly 0.8 with
\* level Full (an inclusive lower edge), from an answer that stated a level,
\* and another objective at a lower level.
C4_Witness ==
    \E o1, o2 \in Stored :
        /\ results[o1].combined_score = Rat(8, 10)
        /\ results[o1].sync_assessment.alignment_level = "Full"
        /\ results[o1].sync_assessment.error = ""
        /\ LevelRank(results[o2].sync_assessment.alignment_level) < 3

\* The objectives whose judgment call raised.
JudgmentFailed == {o \in ObjectiveIds : <<o, "judgment">> \in faults}

\* C6: a judgment call that raises does not end the run: the objective gets
\* a record with agent score 0.5 and the error recorded, no exception of a
\* judgment call leaves run_full_analysis, the objectives after it are
\* assessed, and the returned results hold an entry for every configured
\* objective.
C6_JudgmentFailureRecorded ==
    /\ \A o \in JudgmentFailed :
          /\ (run_pc \in {"blend", "improve", "guide"} /\ o = loop_obj_id) =>
                /\ sync_result.alignment_score = Rat(1, 2)
                /\ sync_result.error \in Errors
          /\ o \in Stored =>
                /\ results[o].sync_assessment.alignment_score = Rat(1, 2)
                /\ results[o].sync_assessment.error \in Errors
          /\ run_pc = "raised" =>
                /\ raised_by \in {"guidance", "summary"}
                /\ raised_by = "guidance" => <<loop_obj_id, "guidance">> \in faults
    /\ \A i \in 1..NumObjectives :
          (i < idx \/ (i = idx /\ run_pc \in {"blend", "improve", "guide"})) =>
              \E k \in 1..Len(progress_log) :
                  progress_log[k] = <<STRATEGIC_OBJECTIVES[i], "Analyzing...">>
    /\ \A i \in 1..NumObjectives : i < idx => STRATEGIC_OBJECTIVES[i] \in Stored
    /\ run_pc \in {"summarize", "returned"} => Stored = ObjectiveIds

\* C6: a returned run in which the judgment of the first objective raised
\* and a later objective was judged by the agent's answer.
C6_Witness ==
    /\ run_pc = "returned"
    /\ STRATEGIC_OBJECTIVES[1] \in JudgmentFailed
    /\ \E o \in Stored \ JudgmentFailed :
          /\ o # STRATEGIC_OBJECTIVES[1]
          /\ results[o].sync_assessment.error = ""

HasErrorText(justification) ==
    \E k \in 1..Len(justification) : justification[k] \in Errors

\* C7 (as claimed): a failed objective assessment is published with
\* alignment_level "Partial" and a justification that contains the error text.
C7_FailedPublishedPartial ==
    \A o \in JudgmentFailed \cap Stored :
        /\ results[o].sync_assessment.alignment_level = "Partial"
        /\ HasErrorText(results[o].sync_assessment.justification)

\* C7 (amended): a failed objective assessment is published with agent score
\* 0.5 and a justification that contains the error text; its alignment_level
\* is the level of combined_score = 0.4 + 0.2 * ontology_score: Weak when the
\* ontology score is below 1.0, Partial from 1.0 to below 2.0, Full from 2.0.
C7_FailedPublishedReclassified ==
    \A o \in JudgmentFailed \cap Stored :
        LET sa  == results[o].sync_assessment
            ont == ontology_alignment[o].alignment_score
        IN  /\ HasErrorText(sa.justification)
            /\ sa.alignment_score = Rat(1, 2)
            /\ ont.num < ont.den => sa.alignment_level = "Weak"
            /\ (ont.num >= ont.den /\ ont.num < 2 * ont.den) =>
                  sa.alignment_level = "Partial"
            /\ ont.num >= 2 * ont.den => sa.alignment_level = "Full"

\* C7: a failed objective assessment published with level Weak.
C7_Witness ==
    \E o \in JudgmentFailed \cap Stored :
        /\ results[o].sync_assessment.alignment_level = "Weak"
        /\ HasErrorText(results[o].sync_assessment.justification)

\* C8: no failure of a Language Model call (judgment, improvement, guidance,
\* executive summary) leaves run_full_analysis as an exception.
C8_NoFailurePropagates ==
    faults # {} => run_pc # "raised"

\* C8: a run that a failed guidance call ended with its exception.
C8_Witness ==
    /\ run_pc = "raised"
    /\ raised_by = "guidance"
    /\ \E o \in ObjectiveIds : <<o, "guidance">> \in faults

\* C9: run_improvement_analysis is invoked for an objective iff its
\* combined_score is below 0.7: for every Weak or Missing objective, for no
\* Full one.
C9_ImprovementIffBelow07 ==
    /\ \A o \in Stored :
          LET r == results[o]
              invoked == r.improvements # "None"
          IN  /\ invoked <=> 10 * r.combined_score.num < 7 * r.combined_score.den
              /\ r.sync_assessment.alignment_level \in {"Weak", "Missing"} => invoked
              /\ r.sync_assessment.alignment_level = "Full" => ~invoked
              /\ invoked <=>
                    \E k \in 1..Len(progress_log) :
                        progress_log[k] = <<o, "Generating improvements...">>
    /\ run_pc = "guide" =>
          (improvement_result # "None" <=>
              10 * current_combined_score.num < 7 * current_combined_score.den)

\* C9: a run that published a Partial objective with improvements (combined
\* score in [0.6, 0.7)) and an objective without.
C9_Witness ==
    \E o1, o2 \in Stored :
        /\ results[o1].sync_assessment.alignment_level = "Partial"
        /\ results[o1].improvements # "None"
        /\ results[o2].improvements = "None"

\* C10: retrieve_chunks never fails because a query-expansion call (HyDE or
\* multi-query generation) raised: the search goes on with the remaining
\* query texts, which include the original query.
C10_ExpansionFailureSwallowed ==
    (retrieval_faults \cap {"multi_query", "hyde"} # {}) =>
        /\ r_pc # "raised"
        /\ r_pc \in {"search", "returned"} =>
              \E i \in 1..Len(queries) : queries[i] = OriginalQuery

\* C10: a call of retrieve_chunks that ended with the exception of
\* generate_multi_queries: nothing searched, nothing returned.
C10_Witness ==
    /\ r_pc = "raised"
    /\ "multi_query" \in retrieval_faults
    /\ searched = << >>
    /\ ranked = << >>

\* C11: in one call of retrieve_chunks at most 4 query texts (the original
\* query, the reformulations and the hypothetical document together) are
\* sent to the vector store.
C11_AtMostFourSearches ==
    /\ Len(searched) <= 4
    /\ r_pc \in {"search", "returned"} => Len(queries) <= 4

\* C11: a returned call that searched the original query, three
\* reformulations and the hypothetical document: five texts.
C11_Witness ==
    /\ r_pc = "returned"
    /\ searched = <<OriginalQuery, Variant(1), Variant(2), Variant(3), HydeDoc>>

\* The hits of all the result lists the store returned, in the order the
\* fusion loop met them.
RECURSIVE HitsOfLog(_)
HitsOfLog(log) ==
    IF log = << >> THEN << >> ELSE HitsOfLog(SubSeq(log, 1, Len(log) - 1)) \o log[Len(log)][2]
AllHits == HitsOfLog(search_log)
HitsWithKey(key) == {i \in 1..Len(AllHits) : FusionKey(AllHits[i].doc) = key}
RECURSIVE MilliSum(_, _)
MilliSum(hits, indices) ==
    IF indices = {} THEN 0
    ELSE LET i == CHOOSE j \in indices : TRUE
         IN  hits[i].score.num * (1000 \div hits[i].score.den) + MilliSum(hits, indices \ {i})
\* The sum of the relevances of the hits with this key.
AccumulatedRelevance(key) == Rat(MilliSum(AllHits, HitsWithKey(key)), 1000)

\* Final score = accumulated relevance * (1 + 0.1 * (retrieval_count - 1)).
HasBoostedScore(item) ==
    item.score = RMul(AccumulatedRelevance(item.key),
                      Rat(10 + (item.retrieval_count - 1), 10))

\* C12: each fused item's final score is accumulated_score * (1 + 0.1 *
\* (retrieval_count - 1)), accumulated_score being the sum of the relevances
\* of its hits (count 2 and sum 1.2 give 1.32); and of two fused items with
\* equal accumulated relevance, whatever the relevances, the one retrieved
\* more often has the strictly greater final score.
C12_BoostedScore ==
    r_pc = "returned" =>
        /\ \A i \in 1..Len(ranked) :
              /\ HasBoostedScore(ranked[i])
              /\ (ranked[i].retrieval_count = 2
                    /\ AccumulatedRelevance(ranked[i].key) = Rat(12, 10)) =>
                        ranked[i].score = Rat(132, 100)
        /\ \A i, j \in 1..Len(ranked) :
              (/\ AccumulatedRelevance(ranked[i].key) = AccumulatedRelevance(ranked[j].key)
               /\ ranked[i].retrieval_count > ranked[j].retrieval_count) =>
                  /\ RGe(ranked[i].score, ranked[j].score)
                  /\ ranked[i].score # ranked[j].score

\* C12: a returned call in which one chunk was retrieved once with relevance
\* -0.2 and another twice with relevance -0.1 each: equal accumulated
\* relevance, and the one retrieved twice has the smaller final score, -0.22.
C12_Witness ==
    /\ r_pc = "returned"
    /\ \E i, j \in 1..Len(ranked) :
          /\ ranked[i].retrieval_count = 2 /\ ranked[j].retrieval_count = 1
          /\ AccumulatedRelevance(ranked[i].key) = Rat(-2, 10)
          /\ AccumulatedRelevance(ranked[j].key) = Rat(-2, 10)
          /\ ranked[i].score = Rat(-22, 100)
          /\ ranked[j].score = Rat(-2, 10)

\* The final score of an entry of all_results.
FinalScore(entry) == RMul(entry.score, Rat(10 + (entry.retrieval_count - 1), 10))
\* The top_k in force: 5 when the argument is not given.
TopKInForce == IF top_k = << >> THEN 5 ELSE top_k[1]

\* C13: retrieve_chunks returns a list in non-increasing order of final
\* score, of at most top_k items (5 when top_k is not given; all the fused
\* items when there are no more than that), no two with the same fusion key,
\* and every returned item's final score is at least that of every fused
\* item left out.
C13_RankedTopK ==
    r_pc = "returned" =>
        /\ \A i, j \in 1..Len(ranked) : i < j => RGe(ranked[i].score, ranked[j].score)
        /\ Len(ranked) <= TopKInForce
        /\ Len(ranked) = IF Len(all_results) < TopKInForce
                         THEN Len(all_results) ELSE TopKInForce
        /\ \A i, j \in 1..Len(ranked) : i # j => ranked[i].key # ranked[j].key
        /\ \A i \in 1..Len(ranked) :
              \E a \in 1..Len(all_results) :
                  /\ all_results[a].key = ranked[i].key
                  /\ ranked[i].score = FinalScore(all_results[a])
        /\ \A a \in 1..Len(all_results) :
              (\A i \in 1..Len(ranked) : ranked[i].key # all_results[a].key) =>
                  \A i \in 1..Len(ranked) :
                      RGe(ranked[i].score, FinalScore(all_results[a]))

\* C13: a call without top_k that fused more than 5 items and returned 5,
\* among them one that more than one search retrieved.
C13_Witness ==
    /\ r_pc = "returned"
    /\ top_k = << >>
    /\ Len(all_results) > 5
    /\ Len(ranked) = 5
    /\ \E i \in 1..Len(ranked) : ranked[i].retrieval_count > 1

\* Among hits, in the order the fusion loop met them: the positions of
\* those with this key, the first of them, and the sum of their relevances.
WithKeyIn(hits, key) == {i \in 1..Len(hits) : FusionKey(hits[i].doc) = key}
FirstWithKeyIn(hits, key) ==
    hits[CHOOSE i \in WithKeyIn(hits, key) : \A j \in WithKeyIn(hits, key) : i <= j]
RelevanceSumIn(hits, key) == Rat(MilliSum(hits, WithKeyIn(hits, key)), 1000)

\* C14: the fusion key of a chunk is the first 100 characters of its text:
\* the chunks met with one key, distinct or not, make a single entry of
\* all_results, which keeps the text and metadata of the first one met, has
\* the sum of all their relevances as its score and the number of all their
\* hits as its retrieval_count.
C14_PrefixCollisionMerged ==
    r_pc \in {"search", "returned"} =>
        LET hits == AllHits
        IN  /\ \A h \in 1..Len(hits) :
                  \E a \in 1..Len(all_results) : all_results[a].key = hits[h].doc.prefix
            /\ \A a, b \in 1..Len(all_results) :
                  a # b => all_results[a].key # all_results[b].key
            /\ \A a \in 1..Len(all_results) :
                  LET entry == all_results[a]
                      first == FirstWithKeyIn(hits, entry.key)
                  IN  /\ WithKeyIn(hits, entry.key) # {}
                      /\ entry.text = <<first.doc.prefix, first.doc.rest>>
                      /\ entry.metadata = first.doc.source
                      /\ entry.score = RelevanceSumIn(hits, entry.key)
                      /\ entry.retrieval_count = Cardinality(WithKeyIn(hits, entry.key))

\* C14: two chunks with different texts and metadata and the same first 100
\* characters were met, relevance 0.6 each: one entry, with the text and
\* metadata of the first, score 1.2 and retrieval_count 2.
C14_Witness ==
    /\ r_pc = "returned"
    /\ Len(AllHits) = 2
    /\ AllHits[1].doc = Chunk(1, 1, 1)
    /\ AllHits[2].doc = Chunk(1, 2, 2)
    /\ Len(all_results) = 1
    /\ all_results[1].text = <<1, 1>>
    /\ all_results[1].metadata = 1
    /\ all_results[1].score = Rat(12, 10)
    /\ all_results[1].retrieval_count = 2

\* The graph has been built from action_text.
GraphBuilt == o_pc \in {"graph", "scored", "gaps"}
\* The objectives an action table row's action is linked to.
ObjectivesOfRow(row) ==
    Objects(knowledge_graph, ActionUri(row.n, row.m), "supportsObjective")

\* C15: for every action table row with id A<n>.<m>, whatever the numeral n,
\* the action is linked by supportsObjective to exactly one objective, SO<n>.
C15_RowLinkedToOwnObjective ==
    GraphBuilt =>
        \A i \in 1..Len(action_text.rows) :
            ObjectivesOfRow(action_text.rows[i]) = {ObjectiveUri(action_text.rows[i].n)}

\* C15: a graph built from a text whose first row is A7.1: its action is
\* linked to SO1 and not to SO7.
C15_Witness ==
    /\ GraphBuilt
    /\ Len(action_text.rows) >= 1
    /\ action_text.rows[1].n = 7
    /\ ObjectivesOfRow(action_text.rows[1]) = {ObjectiveUri(1)}

\* The actions of the table rows of action_text.
RowActions == {ActionUri(action_text.rows[i].n, action_text.rows[i].m) :
                  i \in 1..Len(action_text.rows)}
\* The configured objectives that some table row's action supports.
ObjectivesWithRowAction ==
    {o \in ObjectiveIds :
        \E a \in RowActions :
            ObjectiveUri(o) \in Objects(knowledge_graph, a, "supportsObjective")}
KpiGapsOf(o) == {gap \in gap_report[o] : gap[1] = "No supporting actions"}

\* C16: every action of a table row is linked by supportsKPI to every KPI
\* configured under the objective it supports; so every configured objective
\* with such an action has kpi_coverage = 1.0, and identify_gaps reports no
\* "No supporting actions" gap for it.
C16_RowActionCoversAllKpis ==
    o_pc = "gaps" =>
        /\ \A a \in RowActions :
              \A o \in ObjectiveIds :
                  ObjectiveUri(o) \in Objects(knowledge_graph, a, "supportsObjective") =>
                      {KpiUri(o, k) : k \in OBJECTIVE_KPIS(o)}
                          \subseteq Objects(knowledge_graph, a, "supportsKPI")
        /\ \A o \in ObjectivesWithRowAction :
              /\ ontology_alignment[o].kpi_coverage = Rat(1, 1)
              /\ KpiGapsOf(o) = {}

\* C16: an objective with a table row's action and an addendum action that
\* names a KPI outside the objective: kpi_coverage is above 1.0.
C16_Witness ==
    /\ o_pc = "gaps"
    /\ \E o \in ObjectivesWithRowAction :
          /\ KpisSupportedFrom(o) \ KpisUnder(o) # {}
          /\ ontology_alignment[o].kpi_coverage.num > ontology_alignment[o].kpi_coverage.den
          /\ KpiGapsOf(o) = {}

\* The Action nodes of the built graph, and what each one carries.
GraphActions == {t[1] : t \in {u \in knowledge_graph : u[2] = "hasStatus"}}
StatusesOf(a) == {v[1] : v \in Objects(knowledge_graph, a, "hasStatus")}
ProgressesOf(a) == {v[2] : v \in Objects(knowledge_graph, a, "hasProgress")}
AddendumActions == {a \in GraphActions : a[1] = "ADD"}

\* C17: each Action's status is the function of its progress ("Completed" at
\* 100 or more, "In Progress" at 50 or more, "Started" above 0, else
\* "Not Started"), for the actions of table rows and addendum actions alike.
C17_StatusFollowsProgress ==
    GraphBuilt =>
        \A a \in GraphActions :
            StatusesOf(a) =
                {IF p >= 100 THEN "Completed"
                 ELSE IF p >= 50 THEN "In Progress"
                 ELSE IF p > 0 THEN "Started"
                 ELSE "Not Started" : p \in ProgressesOf(a)}

\* C17: a graph with an addendum action: progress 20, status "In Progress".
C17_Witness ==
    /\ GraphBuilt
    /\ \E a \in AddendumActions :
          /\ ProgressesOf(a) = {20}
          /\ StatusesOf(a) = {"In Progress"}

\* C18: the progress of every Action of the graph is an integer in [0, 100],
\* whatever the action-plan text.
C18_ProgressInPercentRange ==
    GraphBuilt =>
        \A a \in GraphActions :
            \A v \in Objects(knowledge_graph, a, "hasProgress") :
                v[1] = "int" /\ v[2] \in 0..100

\* C18: a graph built from a table row whose progress cell reads 500%.
C18_Witness ==
    /\ GraphBuilt
    /\ \E i \in 1..Len(action_text.rows) :
          LET row == action_text.rows[i]
          IN  /\ row.progress > 100
              /\ row.progress \in ProgressesOf(ActionUri(row.n, row.m))

\* C19: build_knowledge_graph never raises, whatever the texts, and the graph
\* it returns contains every configured objective and, under each, every
\* configured KPI, so that every configured objective has K > 0.
C19_BuilderTotal ==
    /\ o_pc # "raised"
    /\ GraphBuilt =>
          \A o \in ObjectiveIds :
              /\ <<ObjectiveUri(o), "type", StrLiteral("StrategicObjective")>> \in knowledge_graph
              /\ {KpiUri(o, k) : k \in OBJECTIVE_KPIS(o)} \subseteq KpisUnder(o)
              /\ Cardinality(KpisUnder(o)) > 0

\* C19: the builder was given a text with a progress cell of more than 4300
\* digits, and raised.
C19_Witness ==
    /\ o_pc = "raised"
    /\ \E i \in 1..Len(action_text.rows) : CellDigits(action_text.rows[i]) > 4300

\* The gaps of one kind in identify_gaps' answer for objective o.
LowProgressGapsOf(o) == {gap \in gap_report[o] : gap[1] = "Low progress"}
\* The actions supporting o whose progress is below 25.
LowProgressActions(o) ==
    {a \in LinkedActions(o) : \E p \in ProgressesOf(a) : p < 25}

\* C20: identify_gaps returns exactly one High "No supporting actions" gap
\* for each KPI of the objective that none of its supporting actions is
\* linked to, and one Medium "Low progress" gap for each supporting action
\* whose progress is below 25.
C20_GapsExactlyAsStated ==
    o_pc = "gaps" =>
        \A o \in ObjectiveIds :
            /\ gap_report[o] = KpiGapsOf(o) \cup LowProgressGapsOf(o)
            /\ KpiGapsOf(o) =
                  {<<"No supporting actions", "High", kpi, -1>> :
                      kpi \in KpisUnder(o) \ KpisSupportedFrom(o)}
            /\ \A gap \in LowProgressGapsOf(o) :
                  gap[2] = "Medium" /\ gap[3] \in LowProgressActions(o)
            /\ \A a \in LowProgressActions(o) :
                  Cardinality({gap \in LowProgressGapsOf(o) : gap[3] = a}) = 1

\* C20: gaps were computed for an objective with an action that two table
\* rows give two progress values below 25, and the action has two gaps.
C20_Witness ==
    /\ o_pc = "gaps"
    /\ \E o \in ObjectiveIds :
          \E a \in LowProgressActions(o) :
              /\ Cardinality({p \in ProgressesOf(a) : p < 25}) = 2
              /\ Cardinality({gap \in LowProgressGapsOf(o) : gap[3] = a}) = 2

\* The objectives of the run whose published level is the expected one.
MatchingObjectives ==
    {o \in DOMAIN results :
        results[o].sync_assessment.alignment_level = EXPECTED_ALIGNMENT(o).level}

PublishedUncovered(o) ==
    IF o \in DOMAIN results
    THEN {results[o].sync_assessment.uncovered_kpis[i] :
             i \in 1..Len(results[o].sync_assessment.uncovered_kpis)}
    ELSE {}
InSeq(x, seq) == \E i \in 1..Len(seq) : seq[i] = x

\* C22: an expected gap <objective>_<suffix> is counted as detected if and
\* only if <suffix> occurs in some entry of that objective's uncovered_kpis
\* list (the id itself, or a longer id that contains it, such as "R10" for
\* "R1"); detected + missed is the number of expected gaps.
C22_GapDetectedBySubstring ==
    run_pc = "evaluated" =>
        LET report == eval_results.gap_detection
        IN  /\ \A i \in 1..Len(EXPECTED_GAPS) :
                  LET gap == EXPECTED_GAPS[i]
                      hit == \E u \in PublishedUncovered(gap.obj) : SuffixIn(gap.kpi, u)
                  IN  /\ InSeq(gap, report.detected_gaps) <=> hit
                      /\ InSeq(gap, report.missed_gaps) <=> ~hit
            /\ KpiId(2, 1) \in PublishedUncovered(2) \/ KpiId(2, 10) \in PublishedUncovered(2)
                  => InSeq([obj |-> 2, kpi |-> KpiId(2, 1)], report.detected_gaps)
            /\ report.detected = Len(report.detected_gaps)
            /\ report.missed = Len(report.missed_gaps)
            /\ report.detected + report.missed = Len(EXPECTED_GAPS)
            /\ report.total_expected_gaps = Len(EXPECTED_GAPS)

\* C22: an evaluated run whose uncovered list for SO2 names "R10" and not
\* "R1", and the expected gap SO2_R1 is counted as detected.
C22_Witness ==
    /\ run_pc = "evaluated"
    /\ PublishedUncovered(2) = {KpiId(2, 10)}
    /\ InSeq([obj |-> 2, kpi |-> KpiId(2, 1)], eval_results.gap_detection.detected_gaps)
    /\ eval_results.gap_detection.detected = 1
    /\ eval_results.gap_detection.missed = Len(EXPECTED_GAPS) - 1

\* C23: load_pipeline_cache never raises; it returns the snapshot only when
\* the file holds a JSON object with all of analysis_results, chunks and
\* eval_results, and None for a missing file, a corrupt one, a document that
\* is not an object and an object that lacks one of the three keys.
C23_CacheLoadTotal ==
    cached.outcome # "not called" =>
        /\ cached.outcome # "raised"
        /\ cached.outcome = "data" =>
              /\ cached.data.kind = "object"
              /\ {"analysis_results", "chunks", "eval_results"} \subseteq cached.data.has
        /\ cached.outcome \in {"None", "data"}

\* C23: the loader returned, as the snapshot, an object without
\* "eval_results".
C23_Witness ==
    /\ cached.outcome = "data"
    /\ cached.data.kind = "object"
    /\ "eval_results" \notin cached.data.has
    /\ session_results = "cache"

\* C24: within one session a pipeline run starts only when pipeline_running
\* is false and keeps it true while it runs, and the flag is false again
\* once the run has ended, so that a later run request is served.
C24_RunningFlagTracksRun ==
    /\ d_pc = "running" => pipeline_running
    /\ d_pc \in {"autoload", "sidebar", "runner", "idle", "crashed"} => ~pipeline_running

\* C24: a run was stopped by a widget interaction; the script has run again
\* to its end with the flag still true, and the run request made by that
\* click is still pending.
C24_Witness ==
    /\ last_run = "interrupted"
    /\ d_pc = "idle"
    /\ pipeline_running
    /\ clicked /\ run_pipeline

\* The objectives whose "Done" has been reported.
ReportedDone == {e[1] : e \in {progress_log[p] : p \in 1..Len(progress_log)} \cap
                                 {<<o, "Done">> : o \in ObjectiveIds}}

\* C25: objectives are processed one at a time in the enumeration order of
\* the configuration: the progress reports of an objective are
\* "Analyzing...", then "Generating improvements..." if that pass runs, then
\* "Done", and the first report of the next objective in the table follows
\* the "Done" of the one before; the step in hand always belongs to the
\* objective reported last, and a record is stored exactly for the
\* objectives reported done.
C25_OneObjectiveAtATime ==
    /\ \A p \in 1..Len(progress_log) :
          LET obj    == progress_log[p][1]
              status == progress_log[p][2]
          IN  IF p = 1
              THEN progress_log[p] = <<STRATEGIC_OBJECTIVES[1], "Analyzing...">>
              ELSE LET prev == progress_log[p - 1]
                   IN  \/ /\ status = "Analyzing..."
                          /\ prev[2] = "Done"
                          /\ \E i \in 1..(NumObjectives - 1) :
                                /\ STRATEGIC_OBJECTIVES[i] = prev[1]
                                /\ STRATEGIC_OBJECTIVES[i + 1] = obj
                       \/ /\ status = "Generating improvements..."
                          /\ prev = <<obj, "Analyzing...">>
                       \/ /\ status = "Done"
                          /\ prev[1] = obj
                          /\ prev[2] \in {"Analyzing...", "Generating improvements..."}
    /\ run_pc \in {"blend", "improve", "guide"} =>
          /\ progress_log[Len(progress_log)][1] = STRATEGIC_OBJECTIVES[idx]
          /\ progress_log[Len(progress_log)][2] # "Done"
          /\ ReportedDone = {STRATEGIC_OBJECTIVES[i] : i \in 1..(idx - 1)}
    /\ run_pc \in {"judge", "blend", "improve", "guide", "summarize", "returned", "evaluated"}
          => DOMAIN results = ReportedDone

\* C25: a run that returned after every objective was reported done, one of
\* them with an improvement pass.
C25_Witness ==
    /\ run_pc = "returned"
    /\ ReportedDone = ObjectiveIds
    /\ Len(progress_log) > 2 * NumObjectives
    /\ progress_log[Len(progress_log)] = <<STRATEGIC_OBJECTIVES[NumObjectives], "Done">>

\* C26: two pipeline runs by different callers are not excluded from one
\* another on the shared chunk index.  A retrieval draws from the
\* action_plan collection as it stands at the moment of the search, whoever
\* is clearing or rebuilding it, so a caller whose own ingestion was
\* complete can be served from an empty or half-built collection.
Rebuilding(d) ==
    \/ p_pc[d].phase = "clear" /\ p_pc[d].col > ActionCollection
    \/ p_pc[d].phase = "ingest" /\ p_pc[d].col <= ActionCollection
C26_RetrievalReadsSharedIndex ==
    [][\A c \in Callers :
          (p_pc[c].phase = "analysis" /\ p_pc'[c].phase = "retrieved")
              => LET held == index[ActionCollection].batches
                 IN  /\ observed'[c] = "empty" <=> held = {}
                     /\ observed'[c] = "full" <=> held = 1..MaxBatches
                     /\ observed'[c] \in {"empty", "partial", "full"}
                     /\ index'[ActionCollection].batches = held]_vars
C26_Witness ==
    \E c, d \in Callers :
        /\ c # d
        /\ p_running[c] /\ p_running[d]
        /\ p_pc[c].phase = "retrieved"
        /\ Rebuilding(d)
        /\ observed[c] \in {"empty", "partial"}
        /\ index[ActionCollection].batches # 1..MaxBatches

\* C27: while an objective is under assessment, every tool call made by an
\* agent reads the data of that objective and of no other, whatever
\* objective id the agent passes to the tool.
C27_ToolsReadCurrentObjective ==
    \A i \in 1..Len(tool_log) : tool_log[i].read = {tool_log[i].during}
C27_Witness ==
    \E i \in 1..Len(tool_log) :
        /\ tool_log[i].arg \in ObjectiveIds
        /\ tool_log[i].arg # tool_log[i].during
        /\ tool_log[i].tool = "retrieve_action_chunks"
        /\ tool_log[i].read = {tool_log[i].arg}
        /\ ~tool_log[i].raised

SearchesHolding(key) ==
    {i \in 1..Len(search_log) :
        \E j \in 1..Len(search_log[i][2]) : FusionKey(search_log[i][2][j].doc) = key}

\* C29: the retrieval_count of a fused item is the number of distinct query
\* variants whose result list held it, each searched variant adding at most
\* 1, so that it never exceeds the number of query texts searched.
C29_CountIsSearchesHolding ==
    /\ \A i \in 1..Len(all_results) :
          /\ all_results[i].retrieval_count = Cardinality(SearchesHolding(all_results[i].key))
          /\ all_results[i].retrieval_count <= Len(searched)
    /\ r_pc = "returned" =>
          \A i \in 1..Len(ranked) :
              /\ ranked[i].retrieval_count = Cardinality(SearchesHolding(ranked[i].key))
              /\ ranked[i].retrieval_count <= Len(searched)
\* C29: a returned call that searched one text, whose result list held two
\* chunks with the same first 100 characters.
C29_Witness ==
    /\ r_pc = "returned"
    /\ Len(searched) = 1
    /\ \E i \in 1..Len(ranked) :
          /\ ranked[i].retrieval_count = 2
          /\ Cardinality(SearchesHolding(ranked[i].key)) = 1

\* C30: the covered and uncovered KPI lists of a published judgment have no
\* id in common, hold only ids configured for the objective judged, and
\* together number at most that objective's KPI count.
C30_KpiListsWithinConfigured ==
    \A o \in Stored :
        LET covered   == results[o].sync_assessment.covered_kpis
            uncovered == results[o].sync_assessment.uncovered_kpis
        IN  /\ \A i \in 1..Len(covered) : ~InSeq(covered[i], uncovered)
            /\ \A i \in 1..Len(covered) : covered[i] \in OBJECTIVE_KPIS(o)
            /\ \A i \in 1..Len(uncovered) : uncovered[i] \in OBJECTIVE_KPIS(o)
            /\ Len(covered) + Len(uncovered) <= Cardinality(OBJECTIVE_KPIS(o))
\* C30: a published judgment of SO1 that lists one of its KPIs as covered
\* and as uncovered, three entries for two configured KPIs.
C30_Witness ==
    /\ 1 \in Stored
    /\ results[1].sync_assessment.error = ""
    /\ InSeq(KpiId(1, 2), results[1].sync_assessment.covered_kpis)
    /\ InSeq(KpiId(1, 2), results[1].sync_assessment.uncovered_kpis)
    /\ Len(results[1].sync_assessment.covered_kpis)
         + Len(results[1].sync_assessment.uncovered_kpis) = 3

=============================================================================
